---- MODULE Spec2Model ----
(***************************************************************************)
(* Model of the evidence-gathering orchestrator of the profile analyzer:   *)
(* RobloxAPI (src/roblox_api.py), the rate-limited fetch client and its    *)
(* accessors, and check_user (src/main.py), which drives them in stages.   *)
(*                                                                         *)
(* Time is discrete.  One tick is half a second, so that the client's      *)
(* spacing of 1.5 s is 3 ticks; Units(n) is n seconds in ticks.  The code   *)
(* runs on one asyncio event loop: a coroutine runs without interruption   *)
(* up to its next await, so every action below is one such run.            *)
(***************************************************************************)
EXTENDS Integers, Sequences, FiniteSets, TLC

VARIABLES
    stage,          \* position of check_user
    task,           \* per coroutine: its position inside the client/accessor
    sinceLast,      \* ticks since self.last_request_time, saturating at RateLimitDelay
    session,        \* self.session: "None" or "Open"
    max_retries,    \* the max_retries argument of _rate_limited_request
    deadline,       \* ticks left of the running asyncio.wait_for, NoDeadline if none
    faultsLeft,     \* how many more attempts may still fail with a retryable outcome
    bundle,         \* analysis_results, as far as the verdict reads it
    lookupsLeft,    \* records of all_suspicious_friends[:10] still to look up
    verdict,        \* threat_level
    sinceDispatch,  \* history: ticks since the last outbound request, saturating
    timedOut,       \* history: the stages whose wait_for raised TimeoutError
    posts,          \* history: outcome of each resolution POST for the analysed user
    outcomes,       \* history of the direct request: outcome of each attempt
    waits,          \* history of the direct request: each backoff / pause slept
    dropped,        \* history: the stages whose timeout discarded a returned result
    arg,            \* the analyzer function called on its own, with its arguments
    ret,            \* what that call returned, NotCalled before it
    fetched,        \* what the awaited fetches of one check_user brought
    analysis_results,       \* the dict analysis_results of that check_user
    friends_with_profiles,  \* its list friends_with_profiles, by position
    lookups,        \* history: the profile lookups of its loop, with their outcomes
    runs,           \* per concurrent check_user: its position and requests left
    results,        \* per check_user: what it stored in its analysis_results
    stamped_by,     \* history: the check_user that wrote last_request_time last
    observed,       \* history: who read which cell, and who had written it
    warnings,       \* bot.warnings of one member of one guild: the list of warnings
    issued,         \* history: how many warnings this member was given
    dialogs         \* per moderator: the delete view or modal that is open

\* the variables of one check_user seen through its data
evidence == <<fetched, analysis_results, friends_with_profiles, lookups>>

\* the variables of check_user runs side by side
sharing == <<runs, results, stamped_by, observed>>

\* the variables of the warning commands
moderation == <<warnings, issued, dialogs>>

\* the variables of the client and of the staged check_user, but for stage
\* and verdict
fetching == <<task, sinceLast, session, max_retries, deadline, faultsLeft,
              bundle, lookupsLeft, sinceDispatch, timedOut, posts, outcomes,
              waits, dropped>>

vars == <<stage, task, sinceLast, session, max_retries, deadline, faultsLeft,
          bundle, lookupsLeft, verdict, sinceDispatch, timedOut, posts,
          outcomes, waits, dropped, arg, ret, fetched, analysis_results,
          friends_with_profiles, lookups, runs, results, stamped_by, observed,
          warnings, issued, dialogs>>

----------------------------------------------------------------------------
(* Bounds of the model *)

\* retryable failures (429, transport error, undecodable body) explored per analysis
MaxFaults == 1
\* retryable failures explored where liveness is checked
MaxLiveFaults == 0
\* largest max_retries a direct request is called with
MaxRetriesBound == 3
\* most suspicious records among the relations one analysis fetches
MaxSuspicious == 1
\* most watch-list badges one badge list contributes
MaxSpecific == 1
\* longest list of relation records given to check_suspicious_names
MaxUsers == 2
\* longest badge list given to check_specific_badges
MaxBadges == 2
\* longest list of avatar assets given to check_default_avatar
MaxAssets == 5
\* longest list of candidates given to check_creation_date_patterns
MaxCandidates == 2
\* largest distance, in hours, of the host's wall clock from UTC
MaxTzOffset == 1
\* the length of a list of suspicious records handed to the username detectors
MaxNames == 3
\* the length of a list the threat aggregator counts
MaxCount == 4
\* how often one function of the pattern engine is called on the same inputs
MaxCalls == 2
\* how many suspicious records a long relation list holds
MaxPerList == 4
\* the last profile lookup of a run that may bring no well-formed profile
MaxOddLookups == 2
\* the length of a list whose records have fields missing or None
MaxSparse == 2
\* how many different page cursors the badge service hands out
MaxCursors == 2
\* how many check_user coroutines run side by side
MaxRuns == 2
\* how many requests one of them makes
MaxRequests == 2

\* warnings given to the member
MaxWarnings == 3

----------------------------------------------------------------------------
(* Program constants *)

\* self.rate_limit_delay = 1.5 seconds, in ticks
RateLimitDelay == 3
\* max_retries=3, the default every accessor uses
DefaultMaxRetries == 3
\* timeout=60 of the social-graph wait_for, in ticks
SocialTimeout == 120
\* timeout=45 of the badge/avatar wait_for, in ticks
BadgeTimeout == 90
\* max_pages = 5
MaxPages == 5
\* all_suspicious_friends[:10]
LookupLimit == 10
\* len(badges_list) < 40
BadgeThreshold == 40

NoDeadline == 0 - 1

\* no analyzer function is called on its own
NoCall == [fn |-> "none"]
NotCalled == <<>>

Units(n) == 2 * n

Min(a, b) == IF a < b THEN a ELSE b

Sat(x) == Min(x, RateLimitDelay)

----------------------------------------------------------------------------
(* Coroutines *)

SocialTasks == {"friends", "followers", "following", "groups"}
BadgeAvatarTasks == {"badges", "avatar"}
ProfileTasks == {"profile", "lookup"}
TaskIds == SocialTasks \cup BadgeAvatarTasks \cup ProfileTasks \cup {"req"}

\* What one attempt can meet: a 200 whose body is the expected object
\* (ok_more: with a non-empty nextPageCursor), an object without the expected
\* field, a falsy JSON value, a truthy JSON value that is no object, a body
\* that does not decode; a 429; another status; a transport-level exception.
Outcomes == {"ok_full", "ok_more", "ok_partial", "ok_falsy", "ok_scalar",
             "ok_undecodable", "s429", "sOther", "transport"}

Retryable == {"ok_undecodable", "s429", "transport"}

\* A coroutine: its position, the loop counters and timer of its request,
\* the page and the content of the badge list so far, its result; and, as
\* history, whether the badge list is empty because the client returned None.
IdleTask == [pc |-> "idle", attempt |-> 0, timer |-> 0, page |-> 0,
             got |-> FALSE, res |-> "none", failed |-> FALSE]

Done(r, v) == [IdleTask EXCEPT !.pc = "done", !.res = v]

\* wait_time = min(8, 2 ** attempt)
BackoffWait(attempt) == Units(Min(8, 2 ^ attempt))

\* await asyncio.sleep(1)
ExceptionPause == Units(1)

\* The rate limiting at the top of an attempt: sleep for the rest of the
\* spacing, or go straight on to session.get.
RateLimit(r, since) ==
    IF since < RateLimitDelay
    THEN [r EXCEPT !.pc = "rl_sleep", !.timer = RateLimitDelay - since]
    ELSE [r EXCEPT !.pc = "inflight", !.timer = 0]

RECURSIVE Attempt(_, _, _, _)
RECURSIVE Return(_, _, _, _, _)

\* for attempt in range(max_retries): ... ; return None
Attempt(t, r, since, mr) ==
    IF r.attempt < mr
    THEN RateLimit(r, since)
    ELSE Return(t, r, "null", since, mr)

\* as Return, but handing on None where the client brought no data
ReturnsNone(t, r, v, since, mr) ==
    Done(r, IF v \in {"ok_full", "ok_more"} THEN "data" ELSE "none")

\* The accessor of coroutine t receives v from _rate_limited_request:
\* v is "null" (None) or the kind of the decoded body.
Return(t, r, v, since, mr) ==
    CASE t = "req" -> Done(r, v)
      [] t \in ProfileTasks ->
            \* get_user_profile_by_id returns the body as it is
            Done(r, CASE v \in {"ok_full", "ok_more"} -> "profile"
                      [] v \in {"ok_partial", "ok_scalar"} -> "malformed"
                      [] OTHER -> "none")
      [] t = "badges" ->
            CASE v \in {"null", "ok_falsy", "ok_partial"} ->
                    [Done(r, IF r.got THEN "data" ELSE "empty")
                        EXCEPT !.failed = (v = "null" /\ ~r.got)]
              [] v = "ok_scalar" -> Done(r, "exc")
              [] v = "ok_full" -> Done(r, "data")
              [] OTHER ->
                    IF r.page + 1 < MaxPages
                    THEN Attempt(t, [r EXCEPT !.page = @ + 1, !.got = TRUE,
                                              !.attempt = 0, !.timer = 0],
                                 since, mr)
                    ELSE Done(r, "data")
      [] OTHER ->
            Done(r, CASE v \in {"ok_full", "ok_more"} -> "data"
                      [] v = "ok_scalar" -> "exc"
                      [] OTHER -> "empty")

\* as After429, but sleeping after the last attempt as well
After429SleepsLast(t, r, since, mr) ==
    IF r.attempt < mr
    THEN [r EXCEPT !.pc = "backoff", !.timer = BackoffWait(r.attempt),
                   !.attempt = @ + 1]
    ELSE Return(t, r, "null", since, mr)

\* elif response.status == 429
After429(t, r, since, mr) ==
    IF r.attempt < mr - 1
    THEN [r EXCEPT !.pc = "backoff", !.timer = BackoffWait(r.attempt),
                   !.attempt = @ + 1]
    ELSE Return(t, r, "null", since, mr)

\* as AfterException, but letting the exception out of the client
AfterExceptionRaises(t, r, since, mr) ==
    [IdleTask EXCEPT !.pc = "raised"]

\* as AfterException, but retrying once only
AfterExceptionOnce(t, r, since, mr) ==
    IF r.attempt < 1 /\ r.attempt < mr - 1
    THEN [r EXCEPT !.pc = "backoff", !.timer = ExceptionPause,
                   !.attempt = @ + 1]
    ELSE Return(t, r, "null", since, mr)

\* except Exception as e
AfterException(t, r, since, mr) ==
    IF r.attempt < mr - 1
    THEN [r EXCEPT !.pc = "backoff", !.timer = ExceptionPause,
                   !.attempt = @ + 1]
    ELSE Return(t, r, "null", since, mr)

\* as AfterOtherStatus, but treating the status like a 429
AfterOtherStatusRetries(t, r, since, mr) == After429(t, r, since, mr)

\* else: (a status that is neither 200 nor 429)
AfterOtherStatus(t, r, since, mr) == Return(t, r, "null", since, mr)

\* One response (or failure) of session.get, handled up to the next await.
AfterResponse(t, r, o, since, mr) ==
    CASE o \in {"ok_full", "ok_more", "ok_partial", "ok_falsy", "ok_scalar"} ->
            Return(t, r, o, since, mr)
      [] o = "s429" -> After429(t, r, since, mr)
      [] o = "sOther" -> AfterOtherStatus(t, r, since, mr)
      [] OTHER -> AfterException(t, r, since, mr)

\* self.last_request_time = asyncio.get_event_loop().time(), once a response
\* has arrived; a transport failure leaves it alone.
StampLast(o, since) == IF o = "transport" THEN since ELSE 0

----------------------------------------------------------------------------
(* History of outbound requests *)

\* A coroutine whose step took it into session.get / session.post sent a request.
Sent(old, new) ==
    /\ new.pc \in {"inflight", "posting"}
    /\ old.pc # new.pc

Senders(newtask) == {t \in TaskIds : Sent(task[t], newtask[t])}

Record(newtask) ==
    sinceDispatch' = IF Senders(newtask) = {} THEN sinceDispatch ELSE 0

RecordDirect(t, old, new, o) ==
    IF t = "req"
    THEN /\ outcomes' = Append(outcomes, o)
         /\ waits' = IF new.pc = "backoff" THEN Append(waits, new.timer) ELSE waits
    ELSE UNCHANGED <<outcomes, waits>>

----------------------------------------------------------------------------
(* The fetch client *)

\* session.get completes for coroutine t with outcome o
Respond(t, o) ==
    /\ task[t].pc = "inflight"
    /\ o = "ok_more" => t = "badges"
    /\ o \in Retryable => faultsLeft > 0
    /\ LET since == StampLast(o, sinceLast)
           new == AfterResponse(t, task[t], o, since, max_retries)
       IN /\ task' = [task EXCEPT ![t] = new]
          /\ sinceLast' = since
          /\ Record(task')
          /\ RecordDirect(t, task[t], new, o)
    /\ faultsLeft' = IF o \in Retryable THEN faultsLeft - 1 ELSE faultsLeft
    /\ UNCHANGED <<stage, session, max_retries, deadline, bundle, lookupsLeft,
                   verdict, timedOut, posts,
                   arg, ret, dropped, evidence, sharing,
                   moderation>>

\* asyncio.sleep returns in coroutine t: after the rate-limit sleep the
\* request goes out, after a backoff the loop starts its next attempt.
Wake(t) ==
    /\ task[t].pc \in {"rl_sleep", "backoff"}
    /\ task[t].timer = 0
    /\ LET new == IF task[t].pc = "rl_sleep"
                  THEN [task[t] EXCEPT !.pc = "inflight"]
                  ELSE Attempt(t, task[t], sinceLast, max_retries)
       IN task' = [task EXCEPT ![t] = new]
    /\ Record(task')
    /\ UNCHANGED <<stage, sinceLast, session, max_retries, deadline, faultsLeft,
                   bundle, lookupsLeft, verdict, timedOut, posts, outcomes,
                   waits,
                   arg, ret, dropped, evidence, sharing,
                   moderation>>

Sleeping == {t \in TaskIds : task[t].pc \in {"rl_sleep", "backoff"}}
Flying == {t \in TaskIds : task[t].pc \in {"inflight", "posting"}}

Timers == {task[t].timer : t \in Sleeping}
              \cup (IF deadline = NoDeadline THEN {} ELSE {deadline})

MinOf(S) == CHOOSE x \in S : \A y \in S : x <= y

\* The clock runs to the next timer; with no timer set it runs tick by tick
\* while a request is in flight.  A response may arrive at every instant the
\* clock stops at.
Steps == IF Timers # {} THEN {MinOf(Timers)}
         ELSE IF Flying # {} THEN {1} ELSE {}

Advance(d) ==
    /\ d > 0
    /\ Timers # {} => d <= MinOf(Timers)
    /\ task' = [t \in TaskIds |->
                  IF t \in Sleeping THEN [task[t] EXCEPT !.timer = @ - d]
                                    ELSE task[t]]
    /\ deadline' = IF deadline = NoDeadline THEN deadline ELSE deadline - d
    /\ sinceLast' = Sat(sinceLast + d)
    /\ sinceDispatch' = Sat(sinceDispatch + d)
    /\ UNCHANGED <<stage, session, max_retries, faultsLeft, bundle,
                   lookupsLeft, verdict, timedOut, posts, outcomes, waits,
                   arg, ret, dropped, evidence, sharing,
                   moderation>>
    /\ vars' # vars

----------------------------------------------------------------------------
(* A direct call of the client: _rate_limited_request(url, max_retries) *)

\* analysis_results has no key 'badge_count'
NoCount == 0 - 1

\* analysis_results as initialised: the lengths of its lists, its flags, the
\* badge count and how often 'Badges not visible' is among its flags
NoBundle == [suspicious_friends |-> 0, suspicious_followers |-> 0,
             suspicious_following |-> 0, account_age_flag |-> FALSE,
             badge_count_flag |-> FALSE, specific_badges_found |-> 0,
             avatar_flag |-> FALSE, badge_count |-> NoCount,
             badges_not_visible |-> 0]

Request ==
    /\ stage = "Client"
    /\ task["req"].pc = "idle"
    /\ LET new == Attempt("req", IdleTask, sinceLast, max_retries)
       IN task' = [task EXCEPT !["req"] = new]
    /\ Record(task')
    /\ session' = "Open"
    /\ UNCHANGED <<stage, sinceLast, max_retries, deadline, faultsLeft, bundle,
                   lookupsLeft, verdict, timedOut, posts, outcomes, waits,
                   arg, ret, dropped, evidence, sharing,
                   moderation>>

\* no check_user is followed through its data
NoEvidence ==
    /\ fetched = <<>>
    /\ analysis_results = <<>>
    /\ friends_with_profiles = <<>>
    /\ lookups = <<>>

\* no check_user runs beside another
NoSharing ==
    /\ runs = <<>>
    /\ results = <<>>
    /\ stamped_by = 0
    /\ observed = {}

\* no warning command is looked at
NoModeration ==
    /\ warnings = <<>>
    /\ issued = 0
    /\ dialogs = <<>>

InitFetch ==
    /\ stage = "Client"
    /\ task = [t \in TaskIds |-> IdleTask]
    /\ sinceLast \in 0..RateLimitDelay
    /\ session \in {"None", "Open"}
    /\ max_retries \in 0..MaxRetriesBound
    /\ deadline = NoDeadline
    /\ faultsLeft = MaxRetriesBound + 1
    /\ bundle = NoBundle
    /\ lookupsLeft = 0
    /\ verdict = "none"
    /\ sinceDispatch = sinceLast
    /\ timedOut = {}
    /\ posts = <<>>
    /\ outcomes = <<>>
    /\ waits = <<>>
    /\ dropped = {}
    /\ arg = NoCall
    /\ ret = NotCalled
    /\ NoEvidence
    /\ NoSharing
    /\ NoModeration

NextFetch ==
    \/ Request
    \/ \E o \in Outcomes : Respond("req", o)
    \/ Wake("req")
    \/ \E d \in Steps : Advance(d)

SpecFetch == InitFetch /\ [][NextFetch]_vars

----------------------------------------------------------------------------
(* The threat aggregator: calculate_threat_level *)

\* (count, max_count, weight) of each factor
Factors(b) ==
    << <<b.suspicious_friends, 3, 2>>,
       <<b.suspicious_followers, 2, 1>>,
       <<b.suspicious_following, 2, 1>>,
       <<IF b.account_age_flag THEN 1 ELSE 0, 1, 3>>,
       <<IF b.badge_count_flag THEN 1 ELSE 0, 1, 2>>,
       <<b.specific_badges_found, 3, 2>>,
       <<IF b.avatar_flag THEN 1 ELSE 0, 1, 1>> >>

RECURSIVE SumSeq(_)
SumSeq(q) == IF q = <<>> THEN 0 ELSE Head(q) + SumSeq(Tail(q))

\* as FactorScore, but without the cap at 1.0
FactorScoreUncapped(f) == (f[1] * f[3] * 6) \div f[2]

\* as FactorScore, but a count above max_count scores nothing
FactorScoreWithin(f) == IF f[1] > f[2] THEN 0 ELSE (f[1] * f[3] * 6) \div f[2]

\* min(count / max_count, 1.0) * weight, in sixths (every max_count divides 6)
FactorScore(f) == (Min(f[1], f[2]) * f[3] * 6) \div f[2]

ThreatScore(b) == SumSeq([i \in 1..Len(Factors(b)) |-> FactorScore(Factors(b)[i])])

MaxScore(b) == SumSeq([i \in 1..Len(Factors(b)) |-> Factors(b)[i][3]])

\* threat_percentage >= 70 -> High, >= 40 -> Medium, else Low
CalculateThreatLevel(b) ==
    IF ThreatScore(b) * 100 >= 70 * 6 * MaxScore(b) THEN "High"
    ELSE IF ThreatScore(b) * 100 >= 40 * 6 * MaxScore(b) THEN "Medium"
    ELSE "Low"

----------------------------------------------------------------------------
(* check_user *)

InitWith(faults) ==
    /\ stage = "Idle"
    /\ task = [t \in TaskIds |-> IdleTask]
    /\ sinceLast = RateLimitDelay
    /\ session = "None"
    /\ max_retries = DefaultMaxRetries
    /\ deadline = NoDeadline
    /\ faultsLeft = faults
    /\ bundle = NoBundle
    /\ lookupsLeft = 0
    /\ verdict = "none"
    /\ sinceDispatch = RateLimitDelay
    /\ timedOut = {}
    /\ posts = <<>>
    /\ outcomes = <<>>
    /\ waits = <<>>
    /\ dropped = {}
    /\ arg = NoCall
    /\ ret = NotCalled
    /\ NoEvidence
    /\ NoSharing
    /\ NoModeration

Init == InitWith(MaxFaults)

\* get_user_profile up to its first await: the resolution POST goes out
\* through session.post, not through _rate_limited_request.
Posting == [IdleTask EXCEPT !.pc = "posting"]

\* The coroutines a gather starts run one after the other, each up to its
\* first await, before anything else happens.
Launch(ts, tk) ==
    [t \in TaskIds |-> IF t \in ts
                       THEN Attempt(t, IdleTask, sinceLast, max_retries)
                       ELSE tk[t]]

\* /checkuser: user_profile = await roblox_api.get_user_profile(username)
CheckUser ==
    /\ stage = "Idle"
    /\ stage' = "FetchingProfile"
    /\ session' = "Open"
    /\ task' = [task EXCEPT !["profile"] = Posting]
    /\ Record(task')
    /\ UNCHANGED <<sinceLast, max_retries, deadline, faultsLeft, bundle,
                   lookupsLeft, verdict, timedOut, posts, outcomes, waits,
                   arg, ret, dropped, evidence, sharing,
                   moderation>>

\* What get_user_profile does with the answer to its POST: a 200 whose data
\* list is non-empty leads on to get_user_profile_by_id, all else to None.
AfterPost(t, o, since, mr) ==
    IF o = "ok_full"
    THEN Attempt(t, IdleTask, since, mr)
    ELSE Done(IdleTask, "none")

\* session.post completes in get_user_profile
PostRespond(t, o) ==
    /\ task[t].pc = "posting"
    /\ o # "ok_more"
    /\ task' = [task EXCEPT ![t] = AfterPost(t, o, sinceLast, max_retries)]
    /\ Record(task')
    /\ posts' = IF t = "profile" THEN Append(posts, o) ELSE posts
    /\ UNCHANGED <<stage, sinceLast, session, max_retries, deadline, faultsLeft,
                   bundle, lookupsLeft, verdict, timedOut, outcomes, waits,
                   arg, ret, dropped, evidence, sharing,
                   moderation>>

\* as Gather, but without return_exceptions: the first exception is raised
GatherPropagates(ts) ==
    [raised |-> \E t \in ts : task[t].res = "exc",
     values |-> [t \in ts |-> task[t].res]]

\* asyncio.gather(..., return_exceptions=True): an exception of a coroutine
\* is handed over as its value.
Gather(ts) == [raised |-> FALSE, values |-> [t \in ts |-> task[t].res]]

Closed == [IdleTask EXCEPT !.pc = "closed"]

\* as Cancel, but leaving the coroutines running
NoCancel(ts, tk) == tk

\* the coroutines of ts that had returned when the deadline fired
Finished(ts) == {t \in ts : task[t].pc = "done"}

\* the stage, if its deadline discards a result that had been returned
Discarded(ts, name) == IF Finished(ts) # {} THEN {name} ELSE {}

\* wait_for cancels the gather it waits for, and that cancels every
\* coroutine of it that has not finished: CancelledError is raised at its
\* await, which the client's except Exception does not catch.
Cancel(ts, tk) ==
    [t \in TaskIds |-> IF t \in ts /\ tk[t].pc # "done" THEN Closed ELSE tk[t]]

\* Once handed to check_user, the value of a finished coroutine lives on only
\* in what check_user made of it.
Forget(ts, tk) ==
    [t \in TaskIds |-> IF t \in ts /\ tk[t].pc = "done" THEN Closed ELSE tk[t]]

\* as AfterProfile, but going on without a profile
AfterProfileNoReturn(res) ==
    IF res = "malformed" THEN "Error" ELSE "FetchingSocialGraph"

\* if not user_profile: ... return; user_profile['id'] raises on a body that
\* is no profile, which the handler's except reports as an error.
AfterProfile(res) ==
    CASE res = "none" -> "NotFound"
      [] res = "malformed" -> "Error"
      [] OTHER -> "FetchingSocialGraph"

\* get_user_profile has returned to check_user
ProfileDone ==
    /\ stage = "FetchingProfile"
    /\ task["profile"].pc = "done"
    /\ stage' = AfterProfile(task["profile"].res)
    /\ IF stage' = "FetchingSocialGraph"
       THEN /\ task' = Launch(SocialTasks, Forget({"profile"}, task))
            /\ deadline' = SocialTimeout
       ELSE UNCHANGED <<task, deadline>>
    /\ Record(task')
    /\ UNCHANGED <<sinceLast, session, max_retries, faultsLeft, bundle,
                   lookupsLeft, verdict, timedOut, posts, outcomes, waits,
                   arg, ret, dropped, evidence, sharing,
                   moderation>>

\* except asyncio.TimeoutError: the stage's defaults, and the run goes on
AfterTimeout(next) == next

\* The number of records check_suspicious_names keeps of a fetched list
SuspiciousIn(v) == IF v = "data" THEN 0..MaxSuspicious ELSE {0}

\* Lines 84-112: the suspicious subsets, the account-age flag, then the
\* badge and avatar coroutines are started.
ProcessSocial(v) ==
    \E nf \in SuspiciousIn(v["friends"]),
          nr \in SuspiciousIn(v["followers"]),
          ng \in SuspiciousIn(v["following"]),
          age \in BOOLEAN :
            /\ nf + nr + ng <= MaxSuspicious
            /\ bundle' = [bundle EXCEPT !.suspicious_friends = nf,
                                     !.suspicious_followers = nr,
                                     !.suspicious_following = ng,
                                     !.account_age_flag = age]

SocialDone ==
    /\ stage = "FetchingSocialGraph"
    /\ \A t \in SocialTasks : task[t].pc = "done"
    /\ IF Gather(SocialTasks).raised
       THEN /\ stage' = "Error"
            /\ deadline' = NoDeadline
            /\ UNCHANGED <<task, bundle>>
       ELSE /\ stage' = "FetchingBadgeAvatar"
            /\ ProcessSocial(Gather(SocialTasks).values)
            /\ task' = Launch(BadgeAvatarTasks, Forget(SocialTasks, task))
            /\ deadline' = BadgeTimeout
    /\ Record(task')
    /\ UNCHANGED <<sinceLast, session, max_retries, faultsLeft, lookupsLeft,
                   verdict, timedOut, posts, outcomes, waits,
                   arg, ret, dropped, evidence, sharing,
                   moderation>>

\* as SocialDefaults, but keeping what had been returned before the deadline
SocialKeepsFinished(tk) ==
    [t \in SocialTasks |-> IF tk[t].pc = "done" THEN tk[t].res ELSE "empty"]

\* friends, followers, following, user_groups = [], [], [], []
SocialDefaults(tk) == [t \in SocialTasks |-> "empty"]

\* the 60 seconds are over before the four coroutines have all finished
SocialTimedOut ==
    /\ stage = "FetchingSocialGraph"
    /\ deadline = 0
    /\ \E t \in SocialTasks : task[t].pc # "done"
    /\ stage' = AfterTimeout("FetchingBadgeAvatar")
    /\ dropped' = dropped \cup Discarded(SocialTasks, "social")
    /\ timedOut' = timedOut \cup {"social"}
    /\ IF stage' = "FetchingBadgeAvatar"
       THEN /\ ProcessSocial(SocialDefaults(task))
            /\ task' = Launch(BadgeAvatarTasks,
                            Forget(SocialTasks, Cancel(SocialTasks, task)))
            /\ deadline' = BadgeTimeout
       ELSE /\ task' = Cancel(SocialTasks, task)
            /\ deadline' = NoDeadline
            /\ UNCHANGED <<bundle>>
    /\ Record(task')
    /\ UNCHANGED <<sinceLast, session, max_retries, faultsLeft, lookupsLeft,
                   verdict, posts, outcomes, waits,
                   arg, ret, evidence, sharing,
                   moderation>>

\* all_suspicious_friends[:10]: the records whose profile is looked up
Lookups(b) ==
    Min(b.suspicious_friends + b.suspicious_followers + b.suspicious_following,
        LookupLimit)

\* check_badge_count
CheckBadgeCount(n) == n < BadgeThreshold

\* The lengths a badge list can have: get_user_badges returns [] when its
\* first page brings no data, and the list it collected otherwise.
BadgeLens(v) ==
    IF v = "data" THEN {0, BadgeThreshold - 1, BadgeThreshold}
    ELSE IF v = "empty" THEN {0} ELSE {}

\* Lines 123-137: a list is counted and searched for watch-list badges;
\* None or an exception is marked as hidden.
ProcessBadges(b, v) ==
    IF v \in {"data", "empty"}
    THEN {[b EXCEPT !.badge_count = q[1],
                    !.badge_count_flag = CheckBadgeCount(q[1]),
                    !.specific_badges_found = q[2]] :
             q \in {p \in BadgeLens(v) \X (0..MaxSpecific) : p[2] <= p[1]}}
    ELSE {[b EXCEPT !.badges_not_visible = @ + 1]}

\* Lines 139-142: the avatar items, skipped when None or an exception;
\* check_default_avatar is true of an empty list.
ProcessAvatar(b, v) ==
    IF v = "data" THEN {[b EXCEPT !.avatar_flag = f] : f \in BOOLEAN}
    ELSE IF v = "empty" THEN {[b EXCEPT !.avatar_flag = TRUE]}
    ELSE {b}

\* Lines 123-142
ProcessBadgeAvatar(v) ==
    \E b \in ProcessBadges(bundle, v["badges"]) :
        bundle' \in ProcessAvatar(b, v["avatar"])

\* Lines 144-166: the advanced analysis starts; the first record's profile
\* is requested if there is a suspicious record at all.
StartPatternAnalysis(tk) ==
    /\ lookupsLeft' = Lookups(bundle)
    /\ task' = IF Lookups(bundle) > 0
               THEN [tk EXCEPT !["lookup"] = Posting]
               ELSE tk
    /\ deadline' = NoDeadline

BadgeAvatarDone ==
    /\ stage = "FetchingBadgeAvatar"
    /\ \A t \in BadgeAvatarTasks : task[t].pc = "done"
    /\ IF Gather(BadgeAvatarTasks).raised
       THEN /\ stage' = "Error"
            /\ deadline' = NoDeadline
            /\ UNCHANGED <<task, bundle, lookupsLeft>>
       ELSE /\ stage' = "RunningPatternAnalysis"
            /\ ProcessBadgeAvatar(Gather(BadgeAvatarTasks).values)
            /\ StartPatternAnalysis(Forget(BadgeAvatarTasks, task))
    /\ Record(task')
    /\ UNCHANGED <<sinceLast, session, max_retries, faultsLeft, verdict,
                   timedOut, posts, outcomes, waits,
                   arg, ret, dropped, evidence, sharing,
                   moderation>>

\* as BadgeAvatarDefaults, but with empty lists in place of None
BadgeAvatarEmpty(tk) == [t \in BadgeAvatarTasks |-> "empty"]

\* user_badges, avatar_items = None, None
BadgeAvatarDefaults(tk) == [t \in BadgeAvatarTasks |-> "null"]

\* the 45 seconds are over before both coroutines have finished
BadgeAvatarTimedOut ==
    /\ stage = "FetchingBadgeAvatar"
    /\ deadline = 0
    /\ \E t \in BadgeAvatarTasks : task[t].pc # "done"
    /\ stage' = AfterTimeout("RunningPatternAnalysis")
    /\ dropped' = dropped \cup Discarded(BadgeAvatarTasks, "badges")
    /\ timedOut' = timedOut \cup {"badges"}
    /\ IF stage' = "RunningPatternAnalysis"
       THEN /\ ProcessBadgeAvatar(BadgeAvatarDefaults(task))
            /\ StartPatternAnalysis(Forget(BadgeAvatarTasks,
                                        Cancel(BadgeAvatarTasks, task)))
       ELSE /\ task' = Cancel(BadgeAvatarTasks, task)
            /\ deadline' = NoDeadline
            /\ UNCHANGED <<bundle, lookupsLeft>>
    /\ Record(task')
    /\ UNCHANGED <<sinceLast, session, max_retries, faultsLeft, verdict,
                   posts, outcomes, waits,
                   arg, ret, evidence, sharing,
                   moderation>>

\* Lines 164-171: one get_user_profile of the loop has returned (a profile,
\* None, or a body whose 'created' cannot be read, which the bare except
\* skips); the next record's profile is requested.
LookupDone ==
    /\ stage = "RunningPatternAnalysis"
    /\ lookupsLeft > 0
    /\ task["lookup"].pc = "done"
    /\ lookupsLeft' = lookupsLeft - 1
    /\ task' = [task EXCEPT !["lookup"] =
                   IF lookupsLeft > 1 THEN Posting ELSE Closed]
    /\ Record(task')
    /\ UNCHANGED <<stage, sinceLast, session, max_retries, deadline, faultsLeft,
                   bundle, verdict, timedOut, posts, outcomes, waits,
                   arg, ret, dropped, evidence, sharing,
                   moderation>>

\* Lines 173-188: the pattern checks and calculate_threat_level
Score ==
    /\ stage = "RunningPatternAnalysis"
    /\ lookupsLeft = 0
    /\ stage' = "Scored"
    /\ verdict' = CalculateThreatLevel(bundle)
    /\ UNCHANGED <<task, sinceLast, session, max_retries, deadline, faultsLeft,
                   bundle, lookupsLeft, sinceDispatch, timedOut,
                   posts, outcomes, waits,
                   arg, ret, dropped, evidence, sharing,
                   moderation>>

OrchestratorTasks == TaskIds \ {"req"}

Next ==
    \/ CheckUser
    \/ \E t \in ProfileTasks, o \in Outcomes : PostRespond(t, o)
    \/ \E t \in OrchestratorTasks, o \in Outcomes : Respond(t, o)
    \/ \E t \in OrchestratorTasks : Wake(t)
    \/ \E d \in Steps : Advance(d)
    \/ ProfileDone
    \/ SocialDone
    \/ SocialTimedOut
    \/ BadgeAvatarDone
    \/ BadgeAvatarTimedOut
    \/ LookupDone
    \/ Score

Spec == Init /\ [][Next]_vars

\* The event loop keeps running what is ready, and every request ends: with
\* a response, or with the session's timeout as a transport failure.
FairSpec == InitWith(MaxLiveFaults) /\ [][Next]_vars /\ WF_vars(Next)

----------------------------------------------------------------------------
(* The pattern engine: ThreatAnalyzer.  A string is the sequence of its    *)
(* characters.                                                             *)

LowerLetters == <<"a", "b", "c", "d", "e", "f", "g", "h", "i", "j", "k", "l", "m",
                  "n", "o", "p", "q", "r", "s", "t", "u", "v", "w", "x", "y", "z">>

UpperLetters == <<"A", "B", "C", "D", "E", "F", "G", "H", "I", "J", "K", "L", "M",
                  "N", "O", "P", "Q", "R", "S", "T", "U", "V", "W", "X", "Y", "Z">>

IndexIn(q, c) == CHOOSE i \in 1..Len(q) : q[i] = c

\* as Lower, but leaving the letters as they are
NoLower(str) == str

\* str.lower
Lower(str) ==
    [i \in 1..Len(str) |->
        IF \E k \in 1..Len(UpperLetters) : UpperLetters[k] = str[i]
        THEN LowerLetters[IndexIn(UpperLetters, str[i])]
        ELSE str[i]]

\* str.upper
Upper(str) ==
    [i \in 1..Len(str) |->
        IF \E k \in 1..Len(LowerLetters) : LowerLetters[k] = str[i]
        THEN UpperLetters[IndexIn(LowerLetters, str[i])]
        ELSE str[i]]

\* pattern in text
Contains(pattern, text) ==
    \E i \in 0..(Len(text) - Len(pattern)) :
        SubSeq(text, i + 1, i + Len(pattern)) = pattern

\* self.suspicious_patterns
SuspiciousPatterns ==
    << <<"x", "y", "r", "i", "s">>, <<"v", "q", "s">>,
       <<"r", "i", "s", "e", "n">>, <<"s", "c">>, <<"d", "t">>,
       <<"x", "r", "a", "i", "d">> >>

\* a key a record does not have, and a value that is None
Missing == <<"(missing)">>
Null == <<"(None)">>

\* dict.get(key, default)
Get(value, default) == IF value = Missing THEN default ELSE value

\* username = user.get('name', '').lower(), and display_name likewise:
\* None has no lower
SuspiciousNamesRaises(users_list) ==
    \E i \in 1..Len(users_list) :
        \/ Get(users_list[i].name, <<>>) = Null
        \/ Get(users_list[i].displayName, <<>>) = Null

\* if pattern in username or pattern in display_name
PatternMatches(pattern, user) ==
    \/ Contains(pattern, Lower(Get(user.name, <<>>)))
    \/ Contains(pattern, Lower(Get(user.displayName, <<>>)))

\* as FirstPattern, but with the last pattern that matches
LastPattern(user) ==
    LET hits == {k \in 1..Len(SuspiciousPatterns) :
                    PatternMatches(SuspiciousPatterns[k], user)}
    IN IF hits = {} THEN 0 ELSE CHOOSE k \in hits : \A j \in hits : j <= k

\* for pattern in self.suspicious_patterns: ... break -- the index of the
\* pattern the loop stops at, 0 if it runs to its end
FirstPattern(user) ==
    LET hits == {k \in 1..Len(SuspiciousPatterns) :
                    PatternMatches(SuspiciousPatterns[k], user)}
    IN IF hits = {} THEN 0 ELSE CHOOSE k \in hits : \A j \in hits : k <= j

\* user_copy = user.copy(); user_copy['matched_pattern'] = pattern.upper()
Flagged(user, k) ==
    [id |-> user.id, name |-> user.name, displayName |-> user.displayName,
     matched_pattern |-> Upper(SuspiciousPatterns[k])]

RECURSIVE CheckSuspiciousNames(_)
\* check_suspicious_names
CheckSuspiciousNames(users_list) ==
    IF users_list = <<>> THEN <<>>
    ELSE LET user == Head(users_list)
             k == FirstPattern(user)
         IN (IF k = 0 THEN <<>> ELSE <<Flagged(user, k)>>)
                \o CheckSuspiciousNames(Tail(users_list))

\* a badge record without the key 'name'
NoName == "(no name)"

\* self.specific_badge_ids; an id is written as its decimal digits
SpecificBadgeIds ==
    "3057416426456972" :> "Baby Steps" @@
    "3114670201603542" :> "Head First" @@
    "3006399776257311" :> "A Natural" @@
    "268490457371003" :> "Turning Point" @@
    "341084106898320" :> "Seasoned Killer" @@
    "2724124286915993" :> "Skull Seeker"

\* as FoundBadge, but taking the expected name from the live badge
FoundBadgeLiveName(badge) ==
    [id |-> badge.id,
     name |-> IF badge.name = NoName THEN SpecificBadgeIds[badge.id]
              ELSE badge.name,
     expected_name |-> IF badge.name = NoName THEN SpecificBadgeIds[badge.id]
                       ELSE badge.name]

\* the record check_specific_badges appends for a watch-list badge
FoundBadge(badge) ==
    [id |-> badge.id,
     name |-> IF badge.name = NoName THEN SpecificBadgeIds[badge.id]
              ELSE badge.name,
     expected_name |-> SpecificBadgeIds[badge.id]]

RECURSIVE CheckSpecificBadges(_)
\* check_specific_badges
CheckSpecificBadges(badges_list) ==
    IF badges_list = <<>> THEN <<>>
    ELSE LET badge == Head(badges_list)
         IN (IF badge.id \in DOMAIN SpecificBadgeIds
             THEN <<FoundBadge(badge)>> ELSE <<>>)
                \o CheckSpecificBadges(Tail(badges_list))

\* an item whose 'assetType' is None
NullType == "(None)"

\* item.get('assetType', {}).get('name', ''): None has no get
DefaultAvatarRaises(avatar_items) ==
    \E i \in 1..Len(avatar_items) : avatar_items[i] = NullType

\* if asset_type not in ['Shirt', 'Pants', 'TShirt']: paid_items += 1
PaidItems(avatar_items) ==
    Cardinality({i \in 1..Len(avatar_items) :
                    avatar_items[i] \notin {"Shirt", "Pants", "TShirt"}})

\* as CheckDefaultAvatar, but asking for both conditions
CheckDefaultAvatarBoth(avatar_items) ==
    IF avatar_items = <<>> THEN TRUE
    ELSE Len(avatar_items) < 5 /\ PaidItems(avatar_items) < 2

\* check_default_avatar; an item is the name of its asset type, "" if it
\* has none
CheckDefaultAvatar(avatar_items) ==
    IF avatar_items = <<>> THEN TRUE
    ELSE Len(avatar_items) < 5 \/ PaidItems(avatar_items) < 2

\* Time is counted in hours here.  A date is what the API or a caller
\* hands over: kind "iso" is a timestamp 'YYYY-MM-DDTHH:MM:SSZ' and t its
\* hour in UTC, kind "date" is 'YYYY-MM-DD' and t an hour of that day, kind
\* "bad" is a string that is neither, kind "none" is None or ''.
DayHours == 24

\* timedelta(days=120)
AgeLimitDays == 120

\* if time_diff <= 7
ClusterDays == 7

Abs(x) == IF x < 0 THEN 0 - x ELSE x

\* fromisoformat / strptime succeed
Parses(date) == date.kind \in {"iso", "date"}

\* The naive datetime the parsing ends with: the UTC wall clock of a
\* timestamp (its tzinfo is replaced by None), midnight of a plain date.
ParseDate(date) ==
    IF date.kind = "iso" THEN date.t ELSE (date.t \div DayHours) * DayHours

\* check_account_age; now is datetime.now(), the wall clock of the host
CheckAccountAge(created_date, now) ==
    IF Parses(created_date)
    THEN ParseDate(created_date) > now - AgeLimitDays * DayHours
    ELSE FALSE

\* abs((user_date - friend_date).days): timedelta.days is the floor
DaysApart(user_date, friend_date) == Abs((user_date - friend_date) \div DayHours)

RECURSIVE SamePeriodAccounts(_, _)
\* the loop of check_creation_date_patterns over suspicious_friends_data
SamePeriodAccounts(user_date, friends) ==
    IF friends = <<>> THEN <<>>
    ELSE LET friend_data == Head(friends)
             rest == SamePeriodAccounts(user_date, Tail(friends))
         IN IF Parses(friend_data.created_date)
               /\ DaysApart(user_date, ParseDate(friend_data.created_date))
                     <= ClusterDays
            THEN <<[username |-> friend_data.name,
                    created_date |-> friend_data.created_date,
                    days_apart |-> DaysApart(user_date,
                                      ParseDate(friend_data.created_date))]>>
                    \o rest
            ELSE rest

\* as CheckCreationDatePatterns, but with the loop under the outer try alone:
\* a candidate whose date does not parse ends the loop and empties the list
CheckCreationDatePatternsOneTry(user_created_date, suspicious_friends_data) ==
    IF user_created_date.kind = "none" \/ suspicious_friends_data = <<>>
    THEN <<>>
    ELSE IF ~Parses(user_created_date) THEN <<>>
    ELSE IF \E i \in 1..Len(suspicious_friends_data) :
               suspicious_friends_data[i].created_date.kind = "bad"
    THEN <<>>
    ELSE SamePeriodAccounts(ParseDate(user_created_date),
                            suspicious_friends_data)

\* check_creation_date_patterns
CheckCreationDatePatterns(user_created_date, suspicious_friends_data) ==
    IF user_created_date.kind = "none" \/ suspicious_friends_data = <<>>
    THEN <<>>
    ELSE IF ~Parses(user_created_date) THEN <<>>
    ELSE SamePeriodAccounts(ParseDate(user_created_date),
                            suspicious_friends_data)

\* check_username_generation_patterns.  A pattern is reported with its
\* type, its pattern text, its usernames and its description, which is a
\* fixed text, the group's key and the usernames joined.

Digits == <<"0", "1", "2", "3", "4", "5", "6", "7", "8", "9">>

\* \d
IsDigit(c) == \E k \in 1..Len(Digits) : Digits[k] = c

RECURSIVE IntOf(_)
\* int(number)
IntOf(digits) ==
    IF digits = <<>> THEN 0
    ELSE 10 * IntOf(SubSeq(digits, 1, Len(digits) - 1))
            + (IndexIn(Digits, digits[Len(digits)]) - 1)

\* re.match(r'^(.+?)(\d+)$', s): the lengths the first group can have, a
\* non-empty start of s that leaves a non-empty run of digits up to the end
Cuts(s) == {k \in 1..(Len(s) - 1) : \A i \in (k + 1)..Len(s) : IsDigit(s[i])}

\* .+? is lazy: the first group is the shortest such start
BaseName(s) == SubSeq(s, 1, MinOf(Cuts(s)))

Number(s) == IntOf(SubSeq(s, MinOf(Cuts(s)) + 1, Len(s)))

RECURSIVE Keys(_)
\* the keys of a dict in the order they were first inserted
Keys(q) ==
    IF q = <<>> THEN <<>>
    ELSE LET r == Keys(SubSeq(q, 1, Len(q) - 1))
         IN IF \E i \in 1..Len(r) : r[i] = q[Len(q)] THEN r
            ELSE Append(r, q[Len(q)])

RECURSIVE Concat(_)
Concat(qs) == IF qs = <<>> THEN <<>> ELSE Head(qs) \o Concat(Tail(qs))

RECURSIVE SortByNumber(_)
\* user_list.sort(key=lambda x: x[1]): stable
SortByNumber(user_list) ==
    IF user_list = <<>> THEN <<>>
    ELSE LET x == user_list[Len(user_list)]
             sorted == SortByNumber(SubSeq(user_list, 1, Len(user_list) - 1))
         IN SelectSeq(sorted, LAMBDA y : y[2] <= x[2]) \o <<x>>
                \o SelectSeq(sorted, LAMBDA y : y[2] > x[2])

\* if len(user_list) >= 2
MinSequentialGroup == 2

\* if numbers[i] - numbers[i-1] > 3
MaxGap == 3

\* is_sequential after the loop over range(1, len(numbers))
IsSequential(numbers) ==
    \A i \in 2..Len(numbers) : numbers[i] - numbers[i - 1] <= MaxGap

\* number_base_groups[base_name]
NumberBaseGroup(usernames, base_name) ==
    LET members == SelectSeq(usernames,
                       LAMBDA u : Cuts(Lower(u)) # {}
                                     /\ BaseName(Lower(u)) = base_name)
    IN [i \in 1..Len(members) |-> <<members[i], Number(Lower(members[i]))>>]

\* what the loop over number_base_groups appends for one group
SequentialPattern(usernames, base_name) ==
    LET user_list == SortByNumber(NumberBaseGroup(usernames, base_name))
        pattern_usernames == [i \in 1..Len(user_list) |-> user_list[i][1]]
    IN IF Len(user_list) >= MinSequentialGroup
          /\ IsSequential([i \in 1..Len(user_list) |-> user_list[i][2]])
       THEN << [type |-> "Sequential Numbers",
                pattern |-> base_name \o <<"[numbers]">>,
                usernames |-> pattern_usernames,
                description |-> <<"Sequential numbering pattern: ", base_name,
                                  pattern_usernames>>] >>
       ELSE <<>>

\* Pattern 1
SequentialPatterns(usernames) ==
    LET matched == SelectSeq(usernames, LAMBDA u : Cuts(Lower(u)) # {})
        bases == Keys([i \in 1..Len(matched) |-> BaseName(Lower(matched[i]))])
    IN Concat([k \in 1..Len(bases) |-> SequentialPattern(usernames, bases[k])])

\* username_lower[:4], username_lower[-4:]
AffixLen == 4

\* if len(user_list) >= 3
MinAffixGroup == 3

Prefix(username) == SubSeq(Lower(username), 1, AffixLen)

Suffix(username) ==
    SubSeq(Lower(username), Len(username) - AffixLen + 1, Len(username))

\* if len(username_lower) >= 4
LongEnough(usernames) == SelectSeq(usernames, LAMBDA u : Len(u) >= AffixLen)

\* as PrefixPattern, but reporting a group of two as well
PrefixPatternOfPairs(usernames, prefix) ==
    LET user_list == SelectSeq(LongEnough(usernames), LAMBDA u : Prefix(u) = prefix)
    IN IF Len(user_list) >= MinAffixGroup - 1
       THEN << [type |-> "Common Prefix",
                pattern |-> prefix \o <<"*">>,
                usernames |-> user_list,
                description |-> <<"Common prefix ", prefix, user_list>>] >>
       ELSE <<>>

\* what the loop over prefix_groups appends for one group
PrefixPattern(usernames, prefix) ==
    LET user_list == SelectSeq(LongEnough(usernames), LAMBDA u : Prefix(u) = prefix)
    IN IF Len(user_list) >= MinAffixGroup
       THEN << [type |-> "Common Prefix",
                pattern |-> prefix \o <<"*">>,
                usernames |-> user_list,
                description |-> <<"Common prefix ", prefix, user_list>>] >>
       ELSE <<>>

\* what the loop over suffix_groups appends for one group
SuffixPattern(usernames, suffix) ==
    LET user_list == SelectSeq(LongEnough(usernames), LAMBDA u : Suffix(u) = suffix)
    IN IF Len(user_list) >= MinAffixGroup
       THEN << [type |-> "Common Suffix",
                pattern |-> <<"*">> \o suffix,
                usernames |-> user_list,
                description |-> <<"Common suffix ", suffix, user_list>>] >>
       ELSE <<>>

\* Pattern 2: the prefix groups first, then the suffix groups
AffixPatterns(usernames) ==
    LET long == LongEnough(usernames)
        prefixes == Keys([i \in 1..Len(long) |-> Prefix(long[i])])
        suffixes == Keys([i \in 1..Len(long) |-> Suffix(long[i])])
    IN Concat([k \in 1..Len(prefixes) |-> PrefixPattern(usernames, prefixes[k])])
          \o Concat([k \in 1..Len(suffixes) |-> SuffixPattern(usernames, suffixes[k])])

\* substitutions: a dict display with the key '1' twice keeps the last value
Substitutions ==
    "0" :> "o" @@ "1" :> "l" @@ "3" :> "e" @@ "4" :> "a" @@
    "5" :> "s" @@ "7" :> "t" @@ "8" :> "b" @@ "@" :> "a"

\* normalize_username: no replacement is itself a key, so the replacements
\* one after the other are a replacement character by character
NormalizeUsername(username) ==
    [i \in 1..Len(username) |->
        IF username[i] \in DOMAIN Substitutions THEN Substitutions[username[i]]
        ELSE username[i]]

\* sum(1 for a, b in zip(norm1, norm2) if a == b)
PositionMatches(norm1, norm2) ==
    Cardinality({i \in 1..Min(Len(norm1), Len(norm2)) : norm1[i] = norm2[i]})

\* as Similar, but with a quotient of 0.8 itself taken as similar
SimilarAtLeast(username1, username2) ==
    LET norm1 == NormalizeUsername(username1)
        norm2 == NormalizeUsername(username2)
        max_len == IF Len(norm1) > Len(norm2) THEN Len(norm1) ELSE Len(norm2)
    IN /\ Len(norm1) # 0
       /\ Len(norm2) # 0
       /\ 5 * PositionMatches(norm1, norm2) >= 4 * max_len

\* _check_character_substitution_similarity(u1, u2) > 0.8, the quotient
\* matches / max_len compared in fifths
Similar(username1, username2) ==
    LET norm1 == NormalizeUsername(username1)
        norm2 == NormalizeUsername(username2)
        max_len == IF Len(norm1) > Len(norm2) THEN Len(norm1) ELSE Len(norm2)
    IN /\ Len(norm1) # 0
       /\ Len(norm2) # 0
       /\ 5 * PositionMatches(norm1, norm2) > 4 * max_len

\* unique_users: the names found in a pair (usernames[i], usernames[j]),
\* i < j, that is similar
UniqueUsers(usernames) ==
    {usernames[k] :
        k \in {i \in 1..Len(usernames) :
                  \E j \in 1..Len(usernames) :
                      /\ j # i
                      /\ Similar(Lower(usernames[i]), Lower(usernames[j]))}}

\* list(unique_users): the orders a set can be iterated in
SetOrders(S) ==
    {q \in [1..Cardinality(S) -> S] :
        \A i, j \in 1..Cardinality(S) : i # j => q[i] # q[j]}

\* Pattern 3, order being the order unique_users is iterated in
SubstitutionPatterns(usernames, order) ==
    IF UniqueUsers(usernames) # {}
    THEN << [type |-> "Character Substitution",
             pattern |-> <<"Similar names with character substitutions">>,
             usernames |-> order,
             description |-> <<"Similar usernames with character substitutions: ",
                               <<>>, order>>] >>
    ELSE <<>>

\* usernames = [user.get('name', '') for user in suspicious_friends_list]
Usernames(suspicious_friends_list) ==
    [i \in 1..Len(suspicious_friends_list) |->
        Get(suspicious_friends_list[i].name, <<>>)]

\* username.lower() of a name that is None
UsernamePatternsRaises(suspicious_friends_list) ==
    \E i \in 1..Len(suspicious_friends_list) :
        suspicious_friends_list[i].name = Null

\* check_username_generation_patterns
CheckUsernameGenerationPatterns(suspicious_friends_list, order) ==
    IF suspicious_friends_list = <<>> THEN <<>>
    ELSE LET usernames == Usernames(suspicious_friends_list)
         IN SequentialPatterns(usernames) \o AffixPatterns(usernames)
               \o SubstitutionPatterns(usernames, order)

----------------------------------------------------------------------------
(* A function of the pattern engine, or an accessor of the client, called  *)
(* on its own with arguments from the sets below                           *)

\* user names: none of the patterns; 'sc' inside; 'dt' before 'sc'; 'xyris'
\* overlapping 'risen'; the empty name; 's' and 'c' apart
Names ==
    { <<"B", "o", "b">>, <<"x", "S", "C", "x">>, <<"D", "T", "s", "c">>,
      <<"x", "y", "R", "i", "s", "e", "n">>, <<>>, <<"s", "_", "c">> }

DisplayNames == { <<>>, <<"V", "q", "S">>, <<"A", "n", "n">> }

Sequences(S, n) == UNION {[1..k -> S] : k \in 0..n}

\* relation records as the API lists them, each with its own id
UserLists ==
    {[i \in 1..Len(q) |-> [id |-> i, name |-> q[i][1], displayName |-> q[i][2]]] :
        q \in Sequences(Names \X DisplayNames, MaxUsers)}

\* badges on the watch list and one that is not, under the watch list's
\* name, under another name, without a name
BadgeLists ==
    Sequences([id : {"3006399776257311", "3057416426456972", "1"},
               name : {"A Natural", "Renamed", NoName}], MaxBadges)

AssetLists == Sequences({"Shirt", "TShirt", "Hat", ""}, MaxAssets)

NowUtc == 1000 * DayHours

\* 10 days, 200 days, and the hours around 120 days
Ages ==
    {10 * DayHours, 200 * DayHours} \cup
    {AgeLimitDays * DayHours + d : d \in {0 - 1, 0, 1}}

CreatedDates ==
    {[kind |-> k, t |-> NowUtc - a] : k \in {"iso", "date"}, a \in Ages}
        \cup {[kind |-> "bad", t |-> 0], [kind |-> "none", t |-> 0]}

\* the target's creation time, and the distances of the candidates from it:
\* 7 days, 7 days and a half, 8 days, before it and after it
TargetCreated == NowUtc - 300 * DayHours

Gaps ==
    {0} \cup {sign * (ClusterDays * DayHours + h) :
                 sign \in {0 - 1, 1}, h \in {0, 12, DayHours}}

CandidateDates ==
    {[kind |-> "iso", t |-> TargetCreated - g] : g \in Gaps}
        \cup {[kind |-> "bad", t |-> 0], [kind |-> "none", t |-> 0]}

CandidateLists ==
    {[i \in 1..Len(q) |-> [name |-> i, created_date |-> q[i]]] :
        q \in Sequences(CandidateDates, MaxCandidates)}

TargetDates ==
    {[kind |-> "iso", t |-> TargetCreated], [kind |-> "bad", t |-> 0],
     [kind |-> "none", t |-> 0]}

\* usernames that end in a number, under one base in either letter case,
\* and two that are numbers altogether
NumberedNames ==
    { <<"b", "o", "t", "1">>, <<"b", "o", "t", "2">>, <<"b", "o", "t", "3">>,
      <<"B", "O", "T", "5">>, <<"b", "o", "t", "9">>, <<"1", "9">>, <<"2", "1">> }

\* usernames sharing their first three characters or their first four, and
\* one of three characters
AffixNames ==
    { <<"a", "b", "c">>, <<"a", "b", "c", "X">>, <<"a", "b", "c", "Y">>, <<"a", "b", "c", "Z">>,
      <<"a", "b", "c", "d", "X">>, <<"A", "B", "C", "D", "y">>,
      <<"a", "b", "c", "d", "Z">> }

\* usernames sharing their last four characters
SuffixNames ==
    { <<"X", "a", "b", "c", "d">>, <<"y", "A", "B", "C", "D">>,
      <<"Z", "a", "b", "c", "d">> }

\* usernames that differ by a substitution, and one unlike them
LeetNames ==
    { <<"b", "0", "t">>, <<"b", "o", "t">>, <<"B", "0", "T">>, <<"c", "a", "t">> }

\* suspicious records as the username detectors read them, no name twice
NameLists ==
    {[i \in 1..Len(q) |-> [name |-> q[i]]] :
        q \in {p \in Sequences(NumberedNames, MaxNames)
                         \cup Sequences(AffixNames, MaxNames)
                         \cup Sequences(SuffixNames, MaxNames)
                         \cup Sequences(LeetNames, MaxNames) :
                  \A i, j \in 1..Len(p) : i # j => p[i] # p[j]}}

\* analysis_results as calculate_threat_level reads it
Bundles ==
    [suspicious_friends : 0..MaxCount, suspicious_followers : 0..MaxCount,
     suspicious_following : 0..MaxCount, account_age_flag : BOOLEAN,
     badge_count_flag : BOOLEAN, specific_badges_found : 0..MaxCount,
     avatar_flag : BOOLEAN, badge_count : {NoCount}, badges_not_visible : {0}]

\* the seven factors, and those of them that are flags
FactorNames ==
    {"suspicious_friends", "suspicious_followers", "suspicious_following",
     "account_age_flag", "badge_count_flag", "specific_badges_found",
     "avatar_flag"}

FlagFactors == {"account_age_flag", "badge_count_flag", "avatar_flag"}

\* the bundles whose counts can go up by one
LowerBundles ==
    {b \in Bundles :
        \A f \in FactorNames \ FlagFactors : b[f] < MaxCount}

\* a count can go up, a flag when it is not set
CanRaise(b, factor) == factor \in FlagFactors => ~b[factor]

\* the bundle with one more of a count, or with a flag set
Raised(b, factor) ==
    IF factor \in FlagFactors THEN [b EXCEPT ![factor] = TRUE]
    ELSE [b EXCEPT ![factor] = @ + 1]

ListAccessors == SocialTasks \cup BadgeAvatarTasks

\* what _rate_limited_request hands to an accessor
ClientValues == {"null", "ok_full", "ok_more", "ok_partial", "ok_falsy", "ok_scalar"}

\* relation records whose name or display name is missing or None
SparseUserLists ==
    {[i \in 1..Len(q) |-> [id |-> i, name |-> q[i][1], displayName |-> q[i][2]]] :
        q \in Sequences({<<"s", "c">>, Missing, Null} \X {<<>>, Missing, Null},
                        MaxSparse)}

\* a badge record without the key 'id' or with None for it
NoId == "(no id)"

\* badges without id and name
SparseBadgeLists == Sequences([id : {NoId}, name : {NoName}], MaxSparse)

\* avatar items whose 'assetType' is None
SparseAssetLists == Sequences({"Hat", NullType}, MaxSparse)

\* suspicious records whose name is missing or None
SparseNameLists ==
    {[i \in 1..Len(q) |-> [name |-> q[i]]] :
        q \in Sequences({<<"b", "o", "t", "1">>, Missing, Null}, MaxSparse)}

\* the functions of ThreatAnalyzer
EngineFunctions ==
    {"check_suspicious_names", "check_account_age", "check_specific_badges",
     "check_default_avatar", "calculate_threat_level",
     "check_creation_date_patterns", "check_username_generation_patterns"}

\* the calls of fn on the arguments above
CallsOf(fn) ==
    CASE fn = "check_suspicious_names" ->
           {[fn |-> fn, users_list |-> u] : u \in UserLists \cup SparseUserLists}
      [] fn = "check_account_age" ->
           {[fn |-> fn, created_date |-> c, offset |-> z] :
               c \in CreatedDates, z \in (0 - MaxTzOffset)..MaxTzOffset}
      [] fn = "check_specific_badges" ->
           {[fn |-> fn, badges_list |-> b] : b \in BadgeLists \cup SparseBadgeLists}
      [] fn = "check_default_avatar" ->
           {[fn |-> fn, avatar_items |-> a] : a \in AssetLists \cup SparseAssetLists}
      [] fn = "check_creation_date_patterns" ->
           {[fn |-> fn, user_created_date |-> c, suspicious_friends_data |-> f] :
               c \in TargetDates, f \in CandidateLists}
      [] fn = "check_username_generation_patterns" ->
           UNION {{[fn |-> fn, suspicious_friends_list |-> f, order |-> o] :
                      o \in SetOrders(UniqueUsers(Usernames(f)))} :
                   f \in NameLists \cup SparseNameLists}
      [] fn = "calculate_threat_level" ->
           {[fn |-> fn, analysis_results |-> b] : b \in Bundles}
      [] fn = "calculate_threat_level twice" ->
           {c \in [fn : {fn}, analysis_results : LowerBundles,
                   factor : FactorNames] :
               CanRaise(c.analysis_results, c.factor)}
      [] fn = "accessor" ->
           {[fn |-> fn, t |-> t, data |-> v, got |-> FALSE] :
               t \in ListAccessors \cup {"profile"},
               v \in ClientValues \ {"ok_more"}}
           \cup {[fn |-> fn, t |-> "badges", data |-> v, got |-> g] :
                    v \in ClientValues, g \in BOOLEAN}
      [] fn = "get_user_profile" ->
           {[fn |-> fn, status |-> o] : o \in Outcomes \ {"ok_more"}}
      [] fn = "get_user_badges" ->
           {[fn |-> fn, cursor |-> "", page |-> 0, all_badges |-> <<>>,
             sent |-> <<>>, answers |-> <<>>]}

InitAnalyzer ==
    /\ stage = "Analyzer"
    /\ task = [t \in TaskIds |-> IdleTask]
    /\ sinceLast = RateLimitDelay
    /\ session = "Open"
    /\ max_retries = DefaultMaxRetries
    /\ deadline = NoDeadline
    /\ faultsLeft = 0
    /\ bundle = NoBundle
    /\ lookupsLeft = 0
    /\ verdict = "none"
    /\ sinceDispatch = RateLimitDelay
    /\ timedOut = {}
    /\ posts = <<>>
    /\ outcomes = <<>>
    /\ waits = <<>>
    /\ dropped = {}
    /\ \E fn \in EngineFunctions
                  \cup {"accessor", "get_user_profile", "get_user_badges",
                        "calculate_threat_level twice"} :
          arg \in CallsOf(fn)
    /\ ret = NotCalled
    /\ NoEvidence
    /\ NoSharing
    /\ NoModeration

\* A call of arg.fn returns value and leaves its arguments as after.  ret
\* lists what the calls so far returned; a function of the pattern engine
\* may be called again on what the call before left.
ReturnsLeaving(fn, value, after) ==
    /\ stage = "Analyzer"
    /\ arg.fn = fn
    /\ Len(ret) < (IF fn \in EngineFunctions THEN MaxCalls ELSE 1)
    /\ ret' = Append(ret, value)
    /\ arg' = after
    /\ UNCHANGED <<stage, task, sinceLast, session, max_retries, deadline,
                   faultsLeft, bundle, lookupsLeft, verdict, sinceDispatch,
                   timedOut, posts, outcomes, waits, dropped, evidence,
                   sharing, moderation>>

\* the call of arg.fn returns value and writes to none of its arguments
Returns(fn, value) == ReturnsLeaving(fn, value, arg)

\* the call of arg.fn raises
Raises(fn) ==
    /\ stage = "Analyzer"
    /\ arg.fn = fn
    /\ stage' = "Raised"
    /\ UNCHANGED <<verdict, fetching, arg, ret, evidence, sharing,
                   moderation>>

\* as UsersAfter, but with matched_pattern set on the record itself
UsersAfterNoCopy(users_list) ==
    [i \in 1..Len(users_list) |->
        IF FirstPattern(users_list[i]) = 0 THEN users_list[i]
        ELSE Flagged(users_list[i], FirstPattern(users_list[i]))]

\* user_copy = user.copy(): matched_pattern is set on the copy, and the
\* records of users_list are after the call what they were before
UsersAfter(users_list) == users_list

CallCheckSuspiciousNames ==
    /\ arg.fn = "check_suspicious_names"
    /\ IF SuspiciousNamesRaises(arg.users_list)
       THEN Raises("check_suspicious_names")
       ELSE ReturnsLeaving("check_suspicious_names",
                           CheckSuspiciousNames(arg.users_list),
                           [arg EXCEPT !.users_list = UsersAfter(@)])

CallCheckAccountAge ==
    Returns("check_account_age",
            CheckAccountAge(arg.created_date, NowUtc + arg.offset))

CallCheckSpecificBadges ==
    Returns("check_specific_badges", CheckSpecificBadges(arg.badges_list))

CallCheckDefaultAvatar ==
    /\ arg.fn = "check_default_avatar"
    /\ IF DefaultAvatarRaises(arg.avatar_items)
       THEN Raises("check_default_avatar")
       ELSE Returns("check_default_avatar", CheckDefaultAvatar(arg.avatar_items))

CallCheckCreationDatePatterns ==
    Returns("check_creation_date_patterns",
            CheckCreationDatePatterns(arg.user_created_date,
                                      arg.suspicious_friends_data))

\* arg.order is the order in which this interpreter process iterates the
\* set unique_users: it follows the hashes of the names, which are fixed
\* when the process starts and differ from one process to the next
CallCheckUsernameGenerationPatterns ==
    /\ arg.fn = "check_username_generation_patterns"
    /\ IF UsernamePatternsRaises(arg.suspicious_friends_list)
       THEN Raises("check_username_generation_patterns")
       ELSE Returns("check_username_generation_patterns",
                    CheckUsernameGenerationPatterns(arg.suspicious_friends_list,
                                                    arg.order))

CallCalculateThreatLevel ==
    /\ arg.fn = "calculate_threat_level"
    /\ Returns("calculate_threat_level", CalculateThreatLevel(arg.analysis_results))

\* calculate_threat_level on a bundle, and on the bundle with one factor
\* raised
CallCalculateThreatLevelTwice ==
    /\ arg.fn = "calculate_threat_level twice"
    /\ Returns("calculate_threat_level twice",
               <<CalculateThreatLevel(arg.analysis_results),
                 CalculateThreatLevel(Raised(arg.analysis_results, arg.factor))>>)

\* the accessor of coroutine arg.t goes on from the value the client returned
CallAccessor ==
    Returns("accessor",
            Return(arg.t, [IdleTask EXCEPT !.got = arg.got], arg.data,
                   sinceLast, max_retries))

\* get_user_profile goes on from the answer to its POST
CallGetUserProfile ==
    Returns("get_user_profile",
            AfterPost("profile", arg.status, sinceLast, max_retries))

\* a body's 'nextPageCursor' when the body has no such key
NoCursor == "(no key)"

\* the cursors of the badge service
Cursors == {Digits[k + 1] : k \in 1..MaxCursors}

\* What _rate_limited_request returns for a page: None ("none"), a body
\* without 'data' ("nodata"), or a body with the badges data and with next
\* as its 'nextPageCursor', "" standing for an empty or null one.  The n-th
\* page holds the badge n or no badge.
PageAnswers(n) ==
    {[kind |-> k, data |-> <<>>, next |-> NoCursor] : k \in {"none", "nodata"}}
        \cup [kind : {"page"}, data : {<<>>, <<n>>},
              next : Cursors \cup {"", NoCursor}]

\* as NextCursor, but without line 137
SameCursor(cursor, data) == cursor

\* cursor = data['nextPageCursor']
NextCursor(cursor, data) == data.next

\* One round of the loop of get_user_badges, lines 122-137, from the return
\* of its await, and line 139 when the loop is left.  arg.sent lists the
\* cursors of the requests made (params has no 'cursor' for ""), arg.answers
\* what came back.
CallGetUserBadges ==
    /\ stage = "Analyzer"
    /\ arg.fn = "get_user_badges"
    /\ ret = NotCalled
    /\ \E data \in PageAnswers(arg.page + 1) :
          LET asked == [arg EXCEPT !.sent = Append(@, arg.cursor),
                                  !.answers = Append(@, data),
                                  !.page = @ + 1]
              all_badges == arg.all_badges \o data.data
              extended == [asked EXCEPT !.all_badges = all_badges]
          IN IF data.kind # "page"
             THEN arg' = asked /\ ret' = <<arg.all_badges>>
             ELSE IF data.next \in {NoCursor, ""}
             THEN arg' = extended /\ ret' = <<all_badges>>
             ELSE /\ arg' = [extended EXCEPT !.cursor = NextCursor(@, data)]
                  /\ ret' = IF arg.page + 1 < MaxPages THEN ret
                            ELSE <<all_badges>>
    /\ UNCHANGED <<stage, verdict, fetching, evidence, sharing,
                   moderation>>

NextAnalyzer ==
    \/ CallCheckSuspiciousNames
    \/ CallCheckAccountAge
    \/ CallCheckSpecificBadges
    \/ CallCheckDefaultAvatar
    \/ CallCheckCreationDatePatterns
    \/ CallCheckUsernameGenerationPatterns
    \/ CallCalculateThreatLevel
    \/ CallCalculateThreatLevelTwice
    \/ CallAccessor
    \/ CallGetUserProfile
    \/ CallGetUserBadges

SpecAnalyzer == InitAnalyzer /\ [][NextAnalyzer]_vars

----------------------------------------------------------------------------
(* check_user from the return of its first gather to its verdict, followed *)
(* through its data: what the fetches brought is given, the steps are the  *)
(* stretches of lines 84-188 between two awaits                            *)

\* the client and the staged check_user stand still
FetchingIdle ==
    /\ task = [t \in TaskIds |-> IdleTask]
    /\ sinceLast = RateLimitDelay
    /\ session = "Open"
    /\ max_retries = DefaultMaxRetries
    /\ deadline = NoDeadline
    /\ faultsLeft = 0
    /\ bundle = NoBundle
    /\ lookupsLeft = 0
    /\ sinceDispatch = RateLimitDelay
    /\ timedOut = {}
    /\ posts = <<>>
    /\ outcomes = <<>>
    /\ waits = <<>>
    /\ dropped = {}

\* a relation list: a record that matches no pattern under first_name, then
\* n records whose names hold token, each record with its own id
Relations(token, first_id, n, first_name) ==
    IF n = 0 THEN <<>>
    ELSE <<[id |-> first_id, name |-> first_name,
            displayName |-> <<"A", "n", "n">>]>>
         \o [i \in 1..n |-> [id |-> first_id + i,
                             name |-> token \o <<Digits[i + 1]>>,
                             displayName |-> <<>>]]

\* how many suspicious records a fetched list holds
ListSizes == {0, 1, MaxPerList}

Friends(n) == Relations(<<"s", "c">>, 100, n, <<"B", "o", "b">>)

Followers(n) == Relations(<<"D", "T">>, 200, n, <<"B", "o", "b">>)

Following(n) == Relations(<<"v", "q", "s">>, 300, n, <<"B", "o", "b">>)

\* The friends, followers and following of a target: three lists with as
\* many suspicious records each, the same with no follower at all, a
\* friend whose name is None, and friends who are followers as well.
RelationFetches ==
    {<<Friends(n), Followers(n), Following(n)>> : n \in ListSizes}
        \cup {<<Friends(n), <<>>, Following(n)>> : n \in ListSizes}
        \cup {<<Relations(<<"s", "c">>, 100, 1, Null), <<>>, <<>>>>}
        \cup {<<Friends(1), Friends(1), <<>>>>}

\* the target's 'created': a timestamp of an old account, of a young one, a
\* malformed string, None
EvidenceDates ==
    {[kind |-> "iso", t |-> TargetCreated],
     [kind |-> "iso", t |-> NowUtc - 10 * DayHours],
     [kind |-> "bad", t |-> 0], [kind |-> "none", t |-> 0]}

\* what a gather hands over for a list: None, or the list
NoList == [none |-> TRUE, items |-> <<>>]
List(items) == [none |-> FALSE, items |-> items]

\* groups, badges and avatar items: none of them to be had; a watched
\* badge and a bare avatar; groups, 40 plain badges and a dressed avatar
OptionalResources ==
    {[user_groups |-> <<>>, user_badges |-> NoList, avatar_items |-> NoList],
     [user_groups |-> <<>>,
      user_badges |-> List(<<[id |-> "3006399776257311", name |-> "A Natural"]>>),
      avatar_items |-> List(<<"Hat", "Shirt">>)],
     [user_groups |-> <<"group">>,
      user_badges |-> List([i \in 1..BadgeThreshold |->
                               [id |-> "1", name |-> NoName]]),
      avatar_items |-> List(<<"Hat", "Face", "Shirt", "Pants", "TShirt">>)]}

\* what the fetches of lines 41-48, 69-72 and 111-112 return when given
\* the time
Returned ==
    {[created |-> c, friends |-> l[1], followers |-> l[2], following |-> l[3],
      user_groups |-> o.user_groups, user_badges |-> o.user_badges,
      avatar_items |-> o.avatar_items, timed_out |-> {}] :
        c \in EvidenceDates, l \in RelationFetches, o \in OptionalResources}

\* as OnSocialTimeout, but keeping what the fetches would have returned
OnSocialTimeoutKeeps(f) == [f EXCEPT !.timed_out = @ \cup {"social"}]

\* lines 80-82: friends, followers, following, user_groups = [], [], [], []
OnSocialTimeout(f) ==
    [f EXCEPT !.friends = <<>>, !.followers = <<>>, !.following = <<>>,
              !.user_groups = <<>>, !.timed_out = @ \cup {"social"}]

\* lines 119-121: user_badges, avatar_items = None, None
OnBadgeTimeout(f) ==
    [f EXCEPT !.user_badges = NoList, !.avatar_items = NoList,
              !.timed_out = @ \cup {"badges"}]

\* what lines 41-48, 76-82 and 115-121 handed to check_user: the stages
\* in time, or one or both of them cut by their deadline, where the fetches
\* of the stage would have returned something
Fetches ==
    LET social == {f \in Returned : f.friends # <<>> /\ f.followers # <<>>}
        badges == {f \in Returned : ~f.user_badges.none /\ f.user_groups = <<>>}
    IN Returned
          \cup {OnSocialTimeout(f) : f \in social}
          \cup {OnBadgeTimeout(f) : f \in badges}
          \cup {OnBadgeTimeout(OnSocialTimeout(f)) : f \in social \cap badges}

\* analysis_results of lines 51-61, with the keys the later lines add
InitialResults ==
    [suspicious_friends |-> <<>>, suspicious_followers |-> <<>>,
     suspicious_following |-> <<>>, account_age_flag |-> FALSE,
     badge_count_flag |-> FALSE, specific_badges_found |-> <<>>,
     avatar_flag |-> FALSE, flags |-> <<>>, badge_count |-> NoCount,
     badges_hidden |-> FALSE, shared_groups |-> Missing,
     user_groups |-> Missing, creation_date_patterns |-> Missing,
     username_patterns |-> Missing]

InitEvidence ==
    /\ stage = "SocialGathered"
    /\ verdict = "none"
    /\ FetchingIdle
    /\ arg = NoCall
    /\ ret = NotCalled
    /\ fetched \in Fetches
    /\ analysis_results = InitialResults
    /\ friends_with_profiles = <<>>
    /\ lookups = <<>>
    /\ NoSharing
    /\ NoModeration

\* as Flag, but appending whatever was found
FlagAlways(flags, found, flag) == Append(flags, flag)

\* analysis_results['flags'].append(flag) if found
Flag(flags, found, flag) == IF found THEN Append(flags, flag) ELSE flags

\* lines 85-103
ProcessedSocial(ar, f) ==
    LET friends == CheckSuspiciousNames(f.friends)
        followers == CheckSuspiciousNames(f.followers)
        following == CheckSuspiciousNames(f.following)
        age == CheckAccountAge(f.created, NowUtc)
    IN [ar EXCEPT
          !.suspicious_friends = friends,
          !.suspicious_followers = followers,
          !.suspicious_following = following,
          !.account_age_flag = age,
          !.flags =
              Flag(Flag(Flag(Flag(@,
                  friends # <<>>, <<"Suspicious friends detected">>),
                  followers # <<>>, <<"Suspicious followers detected">>),
                  following # <<>>, <<"Suspicious following detected">>),
                  age, <<"Account younger than 4 months">>)]

\* Lines 84-107.  An exception of check_suspicious_names ends check_user in
\* the handler of line 194.
EvProcessSocial ==
    /\ stage = "SocialGathered"
    /\ IF \/ SuspiciousNamesRaises(fetched.friends)
          \/ SuspiciousNamesRaises(fetched.followers)
          \/ SuspiciousNamesRaises(fetched.following)
       THEN stage' = "Error" /\ UNCHANGED analysis_results
       ELSE /\ stage' = "BadgeAvatarGathered"
            /\ analysis_results' = ProcessedSocial(analysis_results, fetched)
    /\ UNCHANGED <<verdict, fetching, arg, ret, fetched, friends_with_profiles,
                   lookups, sharing,
                   moderation>>

\* lines 123-137
ProcessedBadges(ar, user_badges) ==
    IF ~user_badges.none
    THEN LET flag == CheckBadgeCount(Len(user_badges.items))
             found == CheckSpecificBadges(user_badges.items)
         IN [ar EXCEPT
               !.badge_count = Len(user_badges.items),
               !.badge_count_flag = flag,
               !.specific_badges_found = found,
               !.flags = Flag(Flag(@, flag, <<"Less than 40 badges">>),
                              found # <<>>, <<"TSB badges found">>)]
    ELSE [ar EXCEPT !.badges_hidden = TRUE,
                    !.flags = Append(@, <<"Badges not visible">>)]

\* lines 139-142
ProcessedAvatar(ar, avatar_items) ==
    IF ~avatar_items.none
    THEN [ar EXCEPT
            !.avatar_flag = CheckDefaultAvatar(avatar_items.items),
            !.flags = Flag(@, CheckDefaultAvatar(avatar_items.items),
                           <<"Default/low-robux avatar">>)]
    ELSE ar

\* lines 123-146
EvProcessBadgeAvatar ==
    /\ stage = "BadgeAvatarGathered"
    /\ stage' = "AdvancedAnalysis"
    /\ analysis_results' =
          ProcessedAvatar(ProcessedBadges(analysis_results, fetched.user_badges),
                          fetched.avatar_items)
    /\ UNCHANGED <<verdict, fetching, arg, ret, fetched, friends_with_profiles,
                   lookups, sharing,
                   moderation>>

\* all_suspicious_friends: a new list of the records the three subsets hold
AllSuspicious(ar) ==
    ar.suspicious_friends \o ar.suspicious_followers \o ar.suspicious_following

\* as LookupCandidates, but without the slice
LookupEveryone(all_suspicious_friends) == all_suspicious_friends

\* all_suspicious_friends[:10]
LookupCandidates(all_suspicious_friends) ==
    SubSeq(all_suspicious_friends, 1,
           Min(Len(all_suspicious_friends), LookupLimit))

\* lines 152-156
WithGroups(ar, user_groups) ==
    [ar EXCEPT !.shared_groups = <<>>,
               !.user_groups = IF user_groups # <<>> /\ AllSuspicious(ar) # <<>>
                               THEN user_groups ELSE @]

\* friend['created_date'] = created, friend being the record at position i
\* of all_suspicious_friends: the record of the subset it was taken from
SetCreated(ar, i, created) ==
    LET nf == Len(ar.suspicious_friends)
        nr == Len(ar.suspicious_followers)
        set(friend) == ("created_date" :> created) @@ friend
    IN IF i <= nf THEN [ar EXCEPT !.suspicious_friends[i] = set(@)]
       ELSE IF i <= nf + nr
       THEN [ar EXCEPT !.suspicious_followers[i - nf] = set(@)]
       ELSE [ar EXCEPT !.suspicious_following[i - nf - nr] = set(@)]

\* as Counted, but with the username patterns counted among the friends
CountedWithPatterns(ar) ==
    [suspicious_friends |->
         Len(ar.suspicious_friends) + Len(ar.username_patterns),
     suspicious_followers |-> Len(ar.suspicious_followers),
     suspicious_following |-> Len(ar.suspicious_following),
     account_age_flag |-> ar.account_age_flag,
     badge_count_flag |-> ar.badge_count_flag,
     specific_badges_found |-> Len(ar.specific_badges_found),
     avatar_flag |-> ar.avatar_flag, badge_count |-> ar.badge_count,
     badges_not_visible |-> 0]

\* len(...) of the lists calculate_threat_level counts
Counted(ar) ==
    [suspicious_friends |-> Len(ar.suspicious_friends),
     suspicious_followers |-> Len(ar.suspicious_followers),
     suspicious_following |-> Len(ar.suspicious_following),
     account_age_flag |-> ar.account_age_flag,
     badge_count_flag |-> ar.badge_count_flag,
     specific_badges_found |-> Len(ar.specific_badges_found),
     avatar_flag |-> ar.avatar_flag, badge_count |-> ar.badge_count,
     badges_not_visible |-> 0]

\* lines 173-185, fwp being friends_with_profiles as positions of
\* all_suspicious_friends
WithPatterns(ar, fwp, order) ==
    LET all == AllSuspicious(ar)
        profiles == [k \in 1..Len(fwp) |-> all[fwp[k]]]
        creation_patterns ==
            IF profiles # <<>>
            THEN CheckCreationDatePatterns(fetched.created, profiles)
            ELSE <<>>
        username_patterns == CheckUsernameGenerationPatterns(all, order)
    IN [ar EXCEPT
          !.creation_date_patterns = creation_patterns,
          !.username_patterns = username_patterns,
          !.flags =
              Flag(Flag(@, creation_patterns # <<>>,
                        <<"Account creation patterns detected",
                          Len(creation_patterns)>>),
                   username_patterns # <<>>,
                   <<"Username generation patterns detected",
                     Len(username_patterns)>>)]

\* Lines 173-188: the patterns and the verdict.  The set of line 294 is
\* listed in one of its orders.
Finish(ar, fwp) ==
    \E order \in SetOrders(UniqueUsers(Usernames(AllSuspicious(ar)))) :
        /\ analysis_results' = WithPatterns(ar, fwp, order)
        /\ verdict' = CalculateThreatLevel(Counted(analysis_results'))
        /\ stage' = "Scored"

\* Lines 149-166: without a suspicious record the run goes on to its
\* verdict, with one the first profile is asked for.
EvStartAnalysis ==
    /\ stage = "AdvancedAnalysis"
    /\ LET ar == [WithGroups(analysis_results, fetched.user_groups)
                    EXCEPT !.creation_date_patterns = <<>>]
       IN IF AllSuspicious(ar) = <<>>
          THEN Finish(ar, <<>>)
          ELSE /\ analysis_results' = ar
               /\ stage' = "LookingUp"
               /\ UNCHANGED verdict
    /\ UNCHANGED <<fetching, arg, ret, fetched, friends_with_profiles, lookups,
                   sharing, moderation>>

\* What get_user_profile(friend['name']) brings: a profile ("found"), a
\* profile whose 'created' is malformed ("bad"), a profile without the key
\* 'created' ("raise": KeyError), None ("null").
LookupOutcomes == {"found", "bad", "raise", "null"}

\* 'created' of a profile that is found: every other record was created on
\* the target's day, the others a month before it
ProfileCreated(friend) ==
    [kind |-> "iso",
     t |-> (IF fetched.created.kind = "iso" THEN fetched.created.t
            ELSE TargetCreated)
           - (IF friend.id % 2 = 1 THEN 0 ELSE 30 * DayHours)]

\* Lines 164-171, one round of the loop from the return of its await; after
\* the last round lines 173-188.
EvLookup(o) ==
    /\ stage = "LookingUp"
    /\ o # "found" => Len(lookups) < MaxOddLookups
    /\ LET candidates == LookupCandidates(AllSuspicious(analysis_results))
           i == Len(lookups) + 1
           friend == candidates[i]
           kept == o \in {"found", "bad"}
           created == IF o = "bad" THEN [kind |-> "bad", t |-> 0]
                      ELSE ProfileCreated(friend)
           ar == IF kept THEN SetCreated(analysis_results, i, created)
                 ELSE analysis_results
           fwp == IF kept THEN Append(friends_with_profiles, i)
                  ELSE friends_with_profiles
       IN /\ lookups' = Append(lookups, [id |-> friend.id, outcome |-> o])
          /\ friends_with_profiles' = fwp
          /\ IF i < Len(candidates)
             THEN analysis_results' = ar /\ UNCHANGED <<stage, verdict>>
             ELSE Finish(ar, fwp)
    /\ UNCHANGED <<fetching, arg, ret, fetched, sharing,
                   moderation>>

NextEvidence ==
    \/ EvProcessSocial
    \/ EvProcessBadgeAvatar
    \/ EvStartAnalysis
    \/ \E o \in LookupOutcomes : EvLookup(o)

SpecEvidence == InitEvidence /\ [][NextEvidence]_vars

----------------------------------------------------------------------------
(* check_user coroutines side by side on one event loop, each a chain of    *)
(* requests through the one RobloxAPI object of the process (main.py:14);  *)
(* followed are the cells they read and write, and who wrote what is read  *)

RunIds == 1..MaxRuns

\* the writer of a cell nobody has written since it was constructed
Constructor == 0

\* the attributes of roblox_api that _rate_limited_request reads and writes
ClientCells == {"last_request_time", "session"}

InitConcurrent ==
    /\ stage = "Concurrent"
    /\ verdict = "none"
    /\ FetchingIdle
    /\ arg = NoCall
    /\ ret = NotCalled
    /\ NoEvidence
    /\ runs = [r \in RunIds |-> [pc |-> "idle", left |-> MaxRequests]]
    /\ results = [b \in RunIds |-> [writer |-> Constructor, items |-> 0]]
    /\ stamped_by = [c \in ClientCells |-> Constructor]
    /\ observed = {}
    /\ NoModeration

\* as BundleOf, but with analysis_results a dict of the module
SharedBundle(r) == 1

\* analysis_results is a local name of the coroutine, bound to a dict that
\* the call creates: each run has its own
BundleOf(r) == r

\* run r has read cell, which writer had written last
Read(seen, r, cell, writer) ==
    seen \cup {[cell |-> cell, reader |-> r, writer |-> writer]}

\* main.py:51-61: the run creates its analysis_results
RunStart(r) ==
    /\ stage = "Concurrent"
    /\ runs[r].pc = "idle"
    /\ runs' = [runs EXCEPT ![r].pc = "ready"]
    /\ results' = [results EXCEPT ![BundleOf(r)] = [writer |-> r, items |-> 0]]
    /\ UNCHANGED <<stage, verdict, fetching, arg, ret, evidence, moderation, stamped_by,
                   observed>>

\* roblox_api.py:25-36: _ensure_session reads self.session and creates it
\* when it is None; the rate check reads self.last_request_time; the
\* request goes out on self.session.
RunRequest(r) ==
    /\ stage = "Concurrent"
    /\ runs[r].pc = "ready"
    /\ runs[r].left > 0
    /\ LET creator == IF stamped_by["session"] = Constructor THEN r
                      ELSE stamped_by["session"]
       IN /\ stamped_by' = [stamped_by EXCEPT !["session"] = creator]
          /\ observed' =
                Read(Read(Read(observed,
                     r, "session", stamped_by["session"]),
                     r, "last_request_time", stamped_by["last_request_time"]),
                     r, "session", creator)
    /\ runs' = [runs EXCEPT ![r].pc = "sent"]
    /\ UNCHANGED <<stage, verdict, fetching, arg, ret, evidence, moderation, results>>

\* roblox_api.py:37: the response is there, last_request_time is written
RunRespond(r) ==
    /\ stage = "Concurrent"
    /\ runs[r].pc = "sent"
    /\ stamped_by' = [stamped_by EXCEPT !["last_request_time"] = r]
    /\ runs' = [runs EXCEPT ![r].pc = "answered"]
    /\ UNCHANGED <<stage, verdict, fetching, arg, ret, evidence, moderation, results,
                   observed>>

\* main.py:85-188: what the request brought goes into the run's
\* analysis_results, which is read and written
RunStore(r) ==
    /\ stage = "Concurrent"
    /\ runs[r].pc = "answered"
    /\ observed' = Read(observed, r, "analysis_results",
                        results[BundleOf(r)].writer)
    /\ results' = [results EXCEPT ![BundleOf(r)] =
                      [writer |-> r, items |-> @.items + 1]]
    /\ runs' = [runs EXCEPT ![r] = [pc |-> IF @.left = 1 THEN "done" ELSE "ready",
                                    left |-> @.left - 1]]
    /\ UNCHANGED <<stage, verdict, fetching, arg, ret, evidence, moderation, stamped_by>>

NextConcurrent ==
    \E r \in RunIds :
        \/ RunStart(r)
        \/ RunRequest(r)
        \/ RunRespond(r)
        \/ RunStore(r)

SpecConcurrent == InitConcurrent /\ [][NextConcurrent]_vars


----------------------------------------------------------------------------
(* The warnings of one member of one guild, under the commands warn and    *)
(* delwarn of two moderators (SpecWarnings).  A warning is told from the   *)
(* others by its timestamp, the number of the warn that issued it.         *)

Moderators == {"first", "second"}

\* Discord limit of 25 options
OptionLimit == 25

\* no view and no modal
NoDialog == [pc |-> "idle", options |-> <<>>, warning_id |-> 0, selected |-> 0]

InitWarnings ==
    /\ stage = "Warnings"
    /\ verdict = "none"
    /\ FetchingIdle
    /\ arg = NoCall
    /\ ret = NotCalled
    /\ NoEvidence
    /\ NoSharing
    /\ warnings = <<>>
    /\ issued = 0
    /\ dialogs = [m \in Moderators |-> NoDialog]

\* warn and warn_slash, lines 471-485 and 533-547: the new warning gets
\* the length of the list plus one as its id
Warn ==
    /\ stage = "Warnings"
    /\ issued < MaxWarnings
    /\ issued' = issued + 1
    /\ warnings' = Append(warnings, [id |-> Len(warnings) + 1,
                                     timestamp |-> issued + 1])
    /\ UNCHANGED <<stage, verdict, fetching, arg, ret, evidence, sharing,
                   dialogs>>

\* WarningSelect.__init__: an option for each of the first 25 warnings,
\* its value the id the warning has now, its description what the
\* moderator tells it by
Options(warnings_list) ==
    [k \in 1..Min(Len(warnings_list), OptionLimit) |->
        [value |-> warnings_list[k].id, shown |-> warnings_list[k].timestamp]]

\* delwarn and delwarn_slash for a member with warnings: the view with its
\* dropdown is sent
Delwarn(m) ==
    /\ stage = "Warnings"
    /\ dialogs[m].pc = "idle"
    /\ warnings # <<>>
    /\ dialogs' = [dialogs EXCEPT ![m] = [NoDialog EXCEPT
                      !.pc = "view", !.options = Options(warnings)]]
    /\ UNCHANGED <<stage, verdict, fetching, arg, ret, evidence, sharing,
                   warnings, issued>>

\* WarningSelect.callback: the moderator picks option k, the modal is
\* sent with the value of the option
Callback(m, k) ==
    /\ stage = "Warnings"
    /\ dialogs[m].pc = "view"
    /\ k \in 1..Len(dialogs[m].options)
    /\ dialogs' = [dialogs EXCEPT ![m].pc = "modal",
                                  ![m].warning_id = dialogs[m].options[k].value,
                                  ![m].selected = dialogs[m].options[k].shown]
    /\ UNCHANGED <<stage, verdict, fetching, arg, ret, evidence, sharing,
                   warnings, issued>>

\* as Reassigned, but leaving the ids as they are
NotReassigned(new_warnings_list) == new_warnings_list

\* lines 811-812: warn_entry["id"] = i + 1
Reassigned(new_warnings_list) ==
    [i \in 1..Len(new_warnings_list) |->
        [new_warnings_list[i] EXCEPT !.id = i]]

\* WarningDeleteModal.on_submit, lines 800-815.  The view stays open.
OnSubmit(m) ==
    /\ stage = "Warnings"
    /\ dialogs[m].pc = "modal"
    /\ LET new_warnings_list ==
               SelectSeq(warnings, LAMBDA w : w.id # dialogs[m].warning_id)
       IN warnings' = IF Len(new_warnings_list) = Len(warnings) THEN warnings
                      ELSE Reassigned(new_warnings_list)
    /\ dialogs' = [dialogs EXCEPT ![m].pc = "view", ![m].warning_id = 0]
    /\ UNCHANGED <<stage, verdict, fetching, arg, ret, evidence, sharing,
                   issued>>

\* WarningDeleteView.on_timeout: the dropdown is disabled
OnTimeout(m) ==
    /\ stage = "Warnings"
    /\ dialogs[m].pc = "view"
    /\ dialogs' = [dialogs EXCEPT ![m] = NoDialog]
    /\ UNCHANGED <<stage, verdict, fetching, arg, ret, evidence, sharing,
                   warnings, issued>>

NextWarnings ==
    \/ Warn
    \/ \E m \in Moderators : Delwarn(m)
    \/ \E m \in Moderators : \E k \in 1..MaxWarnings : Callback(m, k)
    \/ \E m \in Moderators : OnSubmit(m)
    \/ \E m \in Moderators : OnTimeout(m)

SpecWarnings == InitWarnings /\ [][NextWarnings]_vars
----------------------------------------------------------------------------
(* Properties of the fetch client, checked on a direct request (SpecFetch) *)

Req == task["req"]

Attempts == Len(outcomes)

AllOutcomes(o) == \A i \in 1..Attempts : outcomes[i] = o

\* the sleeps between n attempts of which every one can be retried
SleepsAfter(n) == IF n > 0 /\ n = max_retries THEN n - 1 ELSE n

DecodedBodies == {"ok_full", "ok_more", "ok_partial", "ok_falsy", "ok_scalar"}

\* C2: a request whose attempts are all answered 429 makes exactly
\* max_retries attempts, sleeps a backoff after each of them but the last,
\* and returns None.
C2_Throttled ==
    AllOutcomes("s429") =>
        /\ Attempts <= max_retries
        /\ Len(waits) = SleepsAfter(Attempts)
        /\ Req.pc = "done" => Attempts = max_retries /\ Req.res = "null"
        /\ Attempts = max_retries /\ Req.pc # "idle" => Req.pc = "done"

C2_Witness ==
    /\ max_retries = DefaultMaxRetries
    /\ outcomes = <<"s429", "s429", "s429">>
    /\ Req.pc = "done"

\* C3: with max_retries = 3 and three 429 responses the backoff waits are
\* 2 and then 4 time units, and there is no third wait.
C3_Waits ==
    max_retries = 3 /\ outcomes = <<"s429", "s429", "s429">>
        => waits = <<Units(2), Units(4)>>

\* C4: whatever the outcomes of its attempts, a request makes at most
\* max_retries attempts, is over after the last of them, ends by returning
\* None or the body it decoded, and never raises.
C4_NeverRaises ==
    /\ Attempts <= max_retries
    /\ Req.pc \in {"idle", "rl_sleep", "inflight", "backoff", "done"}
    /\ Attempts = max_retries /\ Req.pc # "idle" => Req.pc = "done"
    /\ Req.pc = "done" =>
          \/ Req.res = "null" /\ (Attempts = 0 \/ outcomes[Attempts] \notin DecodedBodies)
          \/ Req.res \in DecodedBodies /\ outcomes[Attempts] = Req.res

C4_Witness ==
    /\ Req.pc = "done"
    /\ Req.res = "null"
    /\ outcomes = <<"transport", "s429", "ok_undecodable">>

\* C5 as claimed: a request that only meets transport failures makes at most
\* 2 attempts.
C5_AtMostTwo == AllOutcomes("transport") => Attempts <= 2

\* C5 amended: a request that only meets transport failures makes exactly
\* max_retries attempts, pauses 1 time unit after each of them but the last,
\* and returns None.
C5_TransportRetries ==
    AllOutcomes("transport") =>
        /\ Attempts <= max_retries
        /\ waits = [i \in 1..SleepsAfter(Attempts) |-> Units(1)]
        /\ Req.pc = "done" => Attempts = max_retries /\ Req.res = "null"
        /\ Attempts = max_retries /\ Req.pc # "idle" => Req.pc = "done"

C5_Witness ==
    /\ max_retries = DefaultMaxRetries
    /\ outcomes = <<"transport", "transport", "transport">>
    /\ Req.pc = "done"

\* C6: an attempt answered with a status other than 200 and 429 is the
\* last one: the request returns None at once, with no sleep after it.
C6_OtherStatus ==
    \A i \in 1..Attempts :
        outcomes[i] = "sOther" =>
            /\ i = Attempts
            /\ Req.pc = "done"
            /\ Req.res = "null"
            /\ Len(waits) = i - 1

C6_Witness ==
    /\ Attempts = 2
    /\ outcomes[2] = "sOther"
    /\ max_retries = DefaultMaxRetries

----------------------------------------------------------------------------
(* Properties of check_user *)

\* C1: any two consecutive outbound requests of the client are at least
\* rate_limit_delay apart, whichever coroutines send them.
C1_Spacing ==
    [][Senders(task') # {} =>
          /\ Cardinality(Senders(task')) = 1
          /\ sinceDispatch >= RateLimitDelay]_vars

FetchTasks == SocialTasks \cup BadgeAvatarTasks \cup {"lookup"}

ProfileNull == task["profile"].pc = "done" /\ task["profile"].res = "none"

\* C7: a profile resolution that yields None ends the analysis as "not
\* found": the outcome is final, no fetch coroutine is ever started, no
\* verdict is computed and no error is reported.
C7_NotFound ==
    /\ [][stage = "FetchingProfile" /\ ProfileNull
            => stage' \in {"FetchingProfile", "NotFound"}]_vars
    /\ [][stage = "NotFound" => stage' = "NotFound"]_vars
    /\ [](stage = "NotFound" =>
            /\ \A t \in FetchTasks : task[t].pc = "idle"
            /\ verdict = "none"
            /\ bundle = NoBundle)

C7_Witness == stage = "NotFound" /\ posts = <<"ok_full">>

\* C8: a 429 or a transport error on the resolution POST is retried as the
\* client's policy has it, so "not found" after such a failure means that
\* max_retries resolution requests were made.
C8_ResolutionRetried ==
    /\ stage = "NotFound"
    /\ posts # <<>>
    /\ posts[Len(posts)] \in {"s429", "transport"}
    => Len(posts) = max_retries

StageTasks(st) ==
    CASE st = "FetchingSocialGraph" -> SocialTasks
      [] st = "FetchingBadgeAvatar" -> BadgeAvatarTasks
      [] st = "FetchingProfile" -> {"profile"}
      [] st = "RunningPatternAnalysis" -> {"lookup"}
      [] OTHER -> {}

\* C9: a request of a stage goes out only while that stage is running: no
\* badge or avatar request before the social-graph stage is over, no request
\* of a stage after its deadline has cancelled it; and a timeout never
\* turns into an error of the analysis.
C9_Sequential ==
    /\ [][\A t \in Senders(task') : t \in StageTasks(stage')]_vars
    /\ [][stage' = "FetchingBadgeAvatar" =>
            \A t \in SocialTasks : task'[t].pc = "closed"]_vars
    /\ [](timedOut # {} => stage # "Error")

C9_Witness ==
    /\ "social" \in timedOut
    /\ stage = "FetchingBadgeAvatar"
    /\ task["badges"].pc = "inflight"
    /\ task["avatar"].pc = "rl_sleep"

StageOrder ==
    /\ stage = "FetchingSocialGraph" =>
          stage' \in {"FetchingSocialGraph", "FetchingBadgeAvatar"}
    /\ stage = "FetchingBadgeAvatar" =>
          stage' \in {"FetchingBadgeAvatar", "RunningPatternAnalysis"}
    /\ stage = "RunningPatternAnalysis" =>
          stage' \in {"RunningPatternAnalysis", "Scored"}
    /\ stage = "Scored" => stage' = "Scored"

ProfileResolved ==
    /\ stage = "FetchingProfile"
    /\ task["profile"].pc = "done"
    /\ task["profile"].res = "profile"

NoSuspicious ==
    /\ bundle.suspicious_friends = 0
    /\ bundle.suspicious_followers = 0
    /\ bundle.suspicious_following = 0

\* C11: when the deadline of the social-graph stage fires, the run goes on
\* to the badge/avatar stage with all three suspicious subsets empty, also
\* when some of the four fetches had returned before; the subsets stay
\* empty to the end, so no profile is looked up either.
C11_SocialDeadline ==
    /\ [][stage = "FetchingSocialGraph" /\ "social" \in timedOut'
            => stage' = "FetchingBadgeAvatar"]_vars
    /\ []("social" \in timedOut =>
            /\ NoSuspicious
            /\ lookupsLeft = 0
            /\ stage \in {"FetchingBadgeAvatar", "RunningPatternAnalysis",
                          "Scored"})

C11_Witness ==
    /\ "social" \in dropped
    /\ stage = "FetchingBadgeAvatar"
    /\ NoSuspicious

\* C12: after the deadline of the badge/avatar stage has fired, the bundle
\* has no badge count, its badge-count flag and avatar flag are false, its
\* list of watch-list badges is empty, and 'Badges not visible' is among its
\* flags exactly once; the run goes on to the pattern analysis.
C12_BadgeDeadline ==
    /\ [][stage = "FetchingBadgeAvatar" /\ "badges" \in timedOut'
            => stage' = "RunningPatternAnalysis"]_vars
    /\ []("badges" \in timedOut =>
            /\ bundle.badge_count = NoCount
            /\ ~bundle.badge_count_flag
            /\ ~bundle.avatar_flag
            /\ bundle.specific_badges_found = 0
            /\ bundle.badges_not_visible = 1)

C12_Witness ==
    /\ "badges" \in dropped
    /\ stage = "Scored"
    /\ bundle.badges_not_visible = 1

\* C13: a badge list that is empty because the request for its first page
\* returned None, in a stage that did not time out, is not counted as a
\* list of zero badges: the bundle does not get badge count 0 with the
\* badge-count flag set.
C13_UnavailableNotZero ==
    [][/\ stage = "FetchingBadgeAvatar"
       /\ stage' = "RunningPatternAnalysis"
       /\ "badges" \notin timedOut'
       /\ task["badges"].pc = "done"
       /\ task["badges"].failed
       => ~(bundle'.badge_count = 0 /\ bundle'.badge_count_flag)]_vars

----------------------------------------------------------------------------
(* Properties of the accessors and of the pattern engine, each called on   *)
(* its own (SpecAnalyzer)                                                  *)

Called(fn) == arg.fn = fn /\ ret # NotCalled

Result == ret[1]

SameLetter(a, b) ==
    \/ a = b
    \/ \E k \in 1..Len(LowerLetters) : {a, b} = {LowerLetters[k], UpperLetters[k]}

\* text contains token, in whatever letter case
ContainsAnyCase(token, text) ==
    \E i \in 1..Len(text) :
        /\ i + Len(token) - 1 <= Len(text)
        /\ \A j \in 1..Len(token) : SameLetter(text[i + j - 1], token[j])

\* the tokens, by their index, that a record's name or display name contains
TokensIn(user) ==
    {k \in 1..Len(SuspiciousPatterns) :
        \/ ContainsAnyCase(SuspiciousPatterns[k], user.name)
        \/ ContainsAnyCase(SuspiciousPatterns[k], user.displayName)}

\* label is token in capital letters
IsUpperOf(label, token) ==
    /\ Len(label) = Len(token)
    /\ \A j \in 1..Len(token) :
          /\ SameLetter(label[j], token[j])
          /\ \E k \in 1..Len(UpperLetters) : UpperLetters[k] = label[j]

\* C15 as claimed: for every record and every token it contains, the record
\* is in the result with that token, in capital letters, as its
\* matched_pattern.
C15_EveryToken ==
    Called("check_suspicious_names") =>
        \A i \in 1..Len(arg.users_list) : \A k \in TokensIn(arg.users_list[i]) :
            \E j \in 1..Len(Result) :
                /\ Result[j].id = arg.users_list[i].id
                /\ IsUpperOf(Result[j].matched_pattern, SuspiciousPatterns[k])

\* C15 amended: every record that contains a token is in the result, and its
\* matched_pattern is, in capital letters, the first token of the list that
\* it contains: the token itself when the record contains no earlier one.
C15_FirstToken ==
    Called("check_suspicious_names") =>
        \A i \in 1..Len(arg.users_list) : \A k \in TokensIn(arg.users_list[i]) :
            \E j \in 1..Len(Result) :
                /\ Result[j].id = arg.users_list[i].id
                /\ (\A h \in TokensIn(arg.users_list[i]) : k <= h) =>
                      IsUpperOf(Result[j].matched_pattern, SuspiciousPatterns[k])

C15_Witness ==
    /\ Called("check_suspicious_names")
    /\ Len(arg.users_list) = 1
    /\ arg.users_list[1].name = <<"B", "o", "b">>
    /\ arg.users_list[1].displayName = <<"V", "q", "S">>
    /\ Len(Result) = 1
    /\ Result[1].matched_pattern = <<"V", "Q", "S">>

\* C16: the result of check_suspicious_names lists records of the input in
\* the input's order, none of them twice, each of them containing a token,
\* and the one matched_pattern of each is the first token of the list that
\* the record contains; records containing no token are left out.
C16_FirstOnly ==
    Called("check_suspicious_names") =>
        /\ \A j \in 1..Len(Result) : \A h \in 1..Len(Result) :
              j < h => Result[j].id < Result[h].id
        /\ \A j \in 1..Len(Result) :
              LET user == arg.users_list[Result[j].id]
              IN /\ Result[j].id \in 1..Len(arg.users_list)
                 /\ Result[j].name = user.name
                 /\ Result[j].displayName = user.displayName
                 /\ TokensIn(user) # {}
                 /\ \E k \in TokensIn(user) :
                       /\ \A h \in TokensIn(user) : k <= h
                       /\ IsUpperOf(Result[j].matched_pattern,
                                    SuspiciousPatterns[k])

C16_Witness ==
    /\ Called("check_suspicious_names")
    /\ Len(arg.users_list) = 2
    /\ arg.users_list[1].name = <<"s", "_", "c">>
    /\ arg.users_list[2].name = <<"D", "T", "s", "c">>
    /\ arg.users_list[2].displayName = <<"V", "q", "S">>
    /\ Len(Result) = 1
    /\ Result[1].id = 2
    /\ Result[1].matched_pattern = <<"V", "Q", "S">>

\* C17: for a creation timestamp, the account-age flag is true exactly when
\* the account was created less than 120 days before now: true at 10 days,
\* false at 200 days and false at exactly 120 days.
C17_AccountAge ==
    Called("check_account_age") /\ arg.created_date.kind = "iso" =>
        (Result <=> NowUtc - arg.created_date.t < AgeLimitDays * DayHours)

\* the position in the result of the i-th input, when the result keeps the
\* inputs whose index is in kept, in their order
Rank(kept, i) == Cardinality({k \in kept : k <= i})

\* C18: check_specific_badges returns one match for each badge of the list
\* whose id is on the watch list, in the list's order, and nothing else; a
\* match has the watch list's name as expected_name and the badge's own
\* name, which may differ, as name.
C18_SpecificBadges ==
    Called("check_specific_badges") =>
        LET kept == {i \in 1..Len(arg.badges_list) :
                        arg.badges_list[i].id \in DOMAIN SpecificBadgeIds}
        IN /\ Len(Result) = Cardinality(kept)
           /\ \A i \in kept :
                 LET badge == arg.badges_list[i]
                     found == Result[Rank(kept, i)]
                 IN /\ found.id = badge.id
                    /\ found.expected_name = SpecificBadgeIds[badge.id]
                    /\ badge.name # NoName => found.name = badge.name

C18_Witness ==
    /\ Called("check_specific_badges")
    /\ Len(arg.badges_list) = 2
    /\ arg.badges_list[1].id = "1"
    /\ arg.badges_list[2] = [id |-> "3006399776257311", name |-> "Renamed"]
    /\ Len(Result) = 1
    /\ Result[1].expected_name = "A Natural"
    /\ Result[1].name = "Renamed"

\* the assets whose type is none of Shirt, Pants, TShirt
NonClothing(items) ==
    {i \in 1..Len(items) : items[i] \notin {"Shirt", "Pants", "TShirt"}}

\* C19: the default-avatar flag is true exactly when there are fewer than 5
\* assets or fewer than 2 of them are of a type other than Shirt, Pants and
\* TShirt: true for no assets, false for 5 assets with 2 such.
C19_DefaultAvatar ==
    Called("check_default_avatar") =>
        /\ Result <=> \/ Len(arg.avatar_items) < 5
                      \/ Cardinality(NonClothing(arg.avatar_items)) < 2
        /\ arg.avatar_items = <<>> => Result
        /\ Len(arg.avatar_items) = 5
             /\ Cardinality(NonClothing(arg.avatar_items)) = 2 => ~Result

C19_Witness ==
    /\ Called("check_default_avatar")
    /\ Len(arg.avatar_items) = 5
    /\ Cardinality(NonClothing(arg.avatar_items)) = 2
    /\ ~Result

\* the hours between the target's creation and a candidate's
HoursApart(candidate) ==
    Abs(arg.user_created_date.t - candidate.created_date.t)

\* C20: for a target with a creation timestamp, the result lists exactly the
\* candidates created at most 7 days before or after the target, each once,
\* in the order of the input, with the number of days in between;
\* candidates with no creation date, or one that cannot be read, are left out.
C20_WithinWeek ==
    Called("check_creation_date_patterns")
         /\ arg.user_created_date.kind = "iso" =>
        LET friends == arg.suspicious_friends_data
            kept == {i \in 1..Len(friends) :
                        /\ friends[i].created_date.kind = "iso"
                        /\ HoursApart(friends[i]) <= ClusterDays * DayHours}
        IN /\ Len(Result) = Cardinality(kept)
           /\ \A i \in kept :
                 /\ Result[Rank(kept, i)].username = friends[i].name
                 /\ Result[Rank(kept, i)].days_apart =
                        HoursApart(friends[i]) \div DayHours

----------------------------------------------------------------------------
(* Properties of the username detectors (SpecAnalyzer)                     *)

\* how many digits a name ends with
TrailingDigits(s) ==
    CHOOSE d \in 0..Len(s) :
        /\ \A i \in (Len(s) - d + 1)..Len(s) : IsDigit(s[i])
        /\ d < Len(s) => ~IsDigit(s[Len(s) - d])

\* the name without its trailing integer, lower-cased
NamePrefix(s) == Lower(SubSeq(s, 1, Len(s) - TrailingDigits(s)))

\* the value of the trailing integer
SuffixValue(s) == IntOf(SubSeq(s, Len(s) - TrailingDigits(s) + 1, Len(s)))

\* the names listed are the names at the positions G of names, each as
\* often as it occurs there
SameMembers(listed, names, G) ==
    /\ Len(listed) = Cardinality(G)
    /\ \A j \in G :
          Cardinality({k \in 1..Len(listed) : listed[k] = names[j]})
              = Cardinality({k \in G : names[k] = names[j]})

\* the patterns of one type in a result
OfType(result, type) == {k \in 1..Len(result) : result[k].type = type}

\* C21: usernames are grouped by the lower-cased prefix before their
\* trailing integer; a group of at least 2 yields one 'Sequential Numbers'
\* pattern with all its members exactly when every gap between suffix
\* values next to each other in sorted order is at most 3, and no pattern
\* otherwise
C21_Sequential ==
    Called("check_username_generation_patterns") =>
        LET names == Usernames(arg.suspicious_friends_list)
            numbered == {i \in 1..Len(names) : TrailingDigits(names[i]) > 0}
            Group(i) == {j \in numbered : NamePrefix(names[j]) = NamePrefix(names[i])}
            Value(i) == SuffixValue(names[i])
            GapsSmall(G) ==
                \A i \in G :
                    (\E j \in G : Value(j) > Value(i)) =>
                        \E j \in G : Value(i) < Value(j) /\ Value(j) <= Value(i) + 3
            Reports(G) ==
                {k \in OfType(Result, "Sequential Numbers") :
                    SameMembers(Result[k].usernames, names, G)}
        IN \A i \in numbered :
              Cardinality(Group(i)) >= 2 =>
                 Cardinality(Reports(Group(i)))
                     = (IF GapsSmall(Group(i)) THEN 1 ELSE 0)

\* both names have four characters and the first four are the same letters
SharesFirst(a, b) ==
    /\ Len(a) >= 4
    /\ Len(b) >= 4
    /\ \A k \in 1..4 : SameLetter(a[k], b[k])

\* both names have four characters and the last four are the same letters
SharesLast(a, b) ==
    /\ Len(a) >= 4
    /\ Len(b) >= 4
    /\ \A k \in 0..3 : SameLetter(a[Len(a) - k], b[Len(b) - k])

\* the general rule of C22: one 'Common Prefix' pattern for each group of
\* at least 3 usernames sharing their first 4 characters, one 'Common
\* Suffix' pattern for each group of at least 3 sharing their last 4, each
\* with the group's members, and none for a smaller group
AffixRule ==
    LET names == Usernames(arg.suspicious_friends_list)
        long == {i \in 1..Len(names) : Len(names[i]) >= 4}
        PrefixGroup(i) == {j \in long : SharesFirst(names[i], names[j])}
        SuffixGroup(i) == {j \in long : SharesLast(names[i], names[j])}
        Reports(type, G) ==
            Cardinality({k \in OfType(Result, type) :
                            SameMembers(Result[k].usernames, names, G)})
    IN /\ \A i \in long :
             /\ Reports("Common Prefix", PrefixGroup(i))
                    = (IF Cardinality(PrefixGroup(i)) >= 3 THEN 1 ELSE 0)
             /\ Reports("Common Suffix", SuffixGroup(i))
                    = (IF Cardinality(SuffixGroup(i)) >= 3 THEN 1 ELSE 0)
       /\ Cardinality(OfType(Result, "Common Prefix"))
              = Cardinality({PrefixGroup(i) : i \in long}
                               \cap {G \in SUBSET long : Cardinality(G) >= 3})
       /\ Cardinality(OfType(Result, "Common Suffix"))
              = Cardinality({SuffixGroup(i) : i \in long}
                               \cap {G \in SUBSET long : Cardinality(G) >= 3})

\* the spec's example input
AbcExample ==
    Usernames(arg.suspicious_friends_list)
        = << <<"a", "b", "c", "X">>, <<"a", "b", "c", "Y">>, <<"a", "b", "c", "Z">> >>

\* an input whose names share their first four characters
AbcdExample ==
    Usernames(arg.suspicious_friends_list)
        = << <<"a", "b", "c", "d", "X">>, <<"A", "B", "C", "D", "y">>,
             <<"a", "b", "c", "d", "Z">> >>

\* C22 as stated: the rule above, and for abcX, abcY, abcZ the result
\* contains exactly one Common Prefix pattern
C22_AffixExample ==
    Called("check_username_generation_patterns") =>
        /\ AffixRule
        /\ AbcExample => Cardinality(OfType(Result, "Common Prefix")) = 1

\* C22 (amended): the rule above; abcX, abcY, abcZ share three characters
\* only and give no Common Prefix pattern, abcdX, ABCDy, abcdZ give exactly
\* one
C22_Affix ==
    Called("check_username_generation_patterns") =>
        /\ AffixRule
        /\ AbcExample => OfType(Result, "Common Prefix") = {}
        /\ AbcdExample => Cardinality(OfType(Result, "Common Prefix")) = 1

C22_Witness ==
    /\ Called("check_username_generation_patterns")
    /\ AbcdExample
    /\ Len(Result) = 1
    /\ Result[1].type = "Common Prefix"
    /\ Result[1].usernames = Usernames(arg.suspicious_friends_list)

\* the letter a character of a username stands for
Stands(c) == IF c \in DOMAIN Substitutions THEN Substitutions[c] ELSE c

\* the two names, their case set aside, agree after substitution at more
\* than 0.8 of the positions of the longer one
Scores(a, b) ==
    LET shorter == IF Len(a) < Len(b) THEN Len(a) ELSE Len(b)
        longer == IF Len(a) < Len(b) THEN Len(b) ELSE Len(a)
        differ == {i \in 1..shorter : ~SameLetter(Stands(a[i]), Stands(b[i]))}
    IN /\ shorter > 0
       /\ 5 * (shorter - Cardinality(differ)) > 4 * longer

ReportsOf(i) ==
    {k \in 1..Len(Result) :
        Result[k].username = arg.suspicious_friends_data[i].name}

\* C32: of two candidates with timestamps, one created an interval after
\* the target and the other the same interval before it, either both are
\* reported or neither is, and if reported both with the same days_apart
C32_Symmetric ==
    Called("check_creation_date_patterns")
         /\ arg.user_created_date.kind = "iso" =>
        LET friends == arg.suspicious_friends_data
            target == arg.user_created_date.t
        IN \A i, j \in 1..Len(friends) :
              /\ friends[i].created_date.kind = "iso"
              /\ friends[j].created_date.kind = "iso"
              /\ friends[i].created_date.t - target
                    = target - friends[j].created_date.t
              => /\ (ReportsOf(i) = {}) <=> (ReportsOf(j) = {})
                 /\ \A k \in ReportsOf(i), l \in ReportsOf(j) :
                       Result[k].days_apart = Result[l].days_apart

----------------------------------------------------------------------------
(* Properties of the threat aggregator (SpecAnalyzer)                      *)

\* six times the reference score: min(observed/cap, 1) * weight is
\* 4 * min(observed, 3) sixths for (3, 2), 3 * min(observed, 2) sixths for
\* (2, 1), and 6 * weight sixths for a flag that is set
ReferenceSixths(b) ==
    4 * Min(b.suspicious_friends, 3)
    + 3 * Min(b.suspicious_followers, 2)
    + 3 * Min(b.suspicious_following, 2)
    + (IF b.account_age_flag THEN 18 ELSE 0)
    + (IF b.badge_count_flag THEN 12 ELSE 0)
    + 4 * Min(b.specific_badges_found, 3)
    + (IF b.avatar_flag THEN 6 ELSE 0)

\* percentage = score / 12 * 100 >= p, with score = sixths / 6
PercentageAtLeast(b, p) == ReferenceSixths(b) * 100 >= p * 12 * 6

ReferenceLevel(b) ==
    IF PercentageAtLeast(b, 70) THEN "High"
    ELSE IF PercentageAtLeast(b, 40) THEN "Medium"
    ELSE "Low"

\* a bundle with the account-age flag and nothing else
AgeAlone ==
    [NoBundle EXCEPT !.account_age_flag = TRUE]

\* C23: the verdict is the reference's: High from 70 percent of the total
\* weight 12, Medium from 40 percent, else Low; nothing observed gives Low,
\* the account-age flag alone is 25 percent and Low, account age, badge
\* count and 3 specific badges give Medium
C23_Verdict ==
    Called("calculate_threat_level") =>
        LET b == arg.analysis_results
        IN /\ Result = ReferenceLevel(b)
           /\ b = NoBundle => Result = "Low"
           /\ b = AgeAlone =>
                 /\ ReferenceSixths(b) * 100 = 25 * 12 * 6
                 /\ Result = "Low"
           /\ b = [AgeAlone EXCEPT !.badge_count_flag = TRUE,
                                   !.specific_badges_found = 3] =>
                 Result = "Medium"

C23_Witness ==
    /\ Called("calculate_threat_level")
    /\ arg.analysis_results.suspicious_friends > 3
    /\ arg.analysis_results.account_age_flag
    /\ arg.analysis_results.badge_count_flag
    /\ ~arg.analysis_results.avatar_flag
    /\ arg.analysis_results.suspicious_followers = 1
    /\ arg.analysis_results.suspicious_following = 0
    /\ arg.analysis_results.specific_badges_found = 0
    /\ Result = "Medium"

\* the place of a verdict in the order Low < Medium < High
LevelRank(level) ==
    CASE level = "Low" -> 1 [] level = "Medium" -> 2 [] level = "High" -> 3

\* C36: with one of the seven factors raised (one more suspicious friend,
\* follower, following or specific badge, or a flag set that was not) and
\* the others as they were, the verdict is the same or a higher one
C36_Monotone ==
    Called("calculate_threat_level twice") =>
        LevelRank(Result[1]) <= LevelRank(Result[2])

\* a fourth suspicious friend, above the cap of 3, leaves the verdict
\* Medium
C36_Witness ==
    /\ Called("calculate_threat_level twice")
    /\ arg.factor = "suspicious_friends"
    /\ arg.analysis_results.suspicious_friends = 3
    /\ Result = <<"Medium", "Medium">>

----------------------------------------------------------------------------
(* Properties of the pattern engine as a whole (SpecAnalyzer)              *)

LastPage(data) == data.kind # "page" \/ data.next \in {NoCursor, ""}

RECURSIVE PagesData(_)
\* the badges of the answers, in order
PagesData(answers) ==
    IF answers = <<>> THEN <<>>
    ELSE PagesData(SubSeq(answers, 1, Len(answers) - 1))
            \o answers[Len(answers)].data

\* C29: get_user_badges makes at most 5 page requests; the first carries no
\* cursor and each later one the cursor of the answer before it; no request
\* follows an answer without data or without a non-empty next cursor; the
\* call has returned exactly when such an answer or the fifth answer has
\* come, and then with the badges of all pages answered, in order.
C29_Pages ==
    arg.fn = "get_user_badges" =>
        /\ Len(arg.sent) <= 5
        /\ Len(arg.answers) = Len(arg.sent)
        /\ \A k \in 1..Len(arg.sent) :
              arg.sent[k] = IF k = 1 THEN "" ELSE arg.answers[k - 1].next
        /\ \A k \in 1..(Len(arg.answers) - 1) : ~LastPage(arg.answers[k])
        /\ ret # NotCalled
              <=> /\ arg.answers # <<>>
                  /\ \/ LastPage(arg.answers[Len(arg.answers)])
                     \/ Len(arg.answers) = 5
        /\ ret # NotCalled => ret = <<PagesData(arg.answers)>>

\* two pages are kept although the third request brought nothing
C29_Witness ==
    /\ arg.fn = "get_user_badges"
    /\ Len(arg.sent) = 3
    /\ arg.answers[3].kind = "none"
    /\ ret = << <<1, 2>> >>

\* C26: a function of the pattern engine called on fetched input, fields
\* missing or null included, returns a result: no call raises.
C26_Total == arg.fn \in EngineFunctions => stage # "Raised"

----------------------------------------------------------------------------
(* Properties of check_user followed through its data (SpecEvidence) *)

\* the run has left lines 84-103 behind and was not aborted
SocialProcessed ==
    stage \in {"BadgeAvatarGathered", "AdvancedAnalysis", "LookingUp", "Scored"}

\* the record of all_suspicious_friends a lookup was made for
LookedUp(l) ==
    LET all == AllSuspicious(analysis_results)
    IN all[CHOOSE i \in 1..Len(all) : all[i].id = l.id]

\* the lookups that brought a well-formed 'created' of the target's own day
SameDayLookups ==
    SelectSeq(lookups,
              LAMBDA l : /\ l.outcome = "found"
                         /\ ProfileCreated(LookedUp(l)).t = fetched.created.t)

\* some fetched relation record has no name but None
NullNamed ==
    \E list \in {fetched.friends, fetched.followers, fetched.following} :
        \E i \in 1..Len(list) : list[i].name = Null

\* C25: a date that does not parse never aborts a run.  check_account_age
\* answers false for a target date that does not parse; the creation-date
\* patterns are empty when the target's date does not parse, and when a
\* candidate's date does not parse they hold exactly the other candidates
\* of the target's day, in order; the run is aborted by nothing but a name
\* that is None, it waits for a lookup only while a candidate is left to look
\* up, and once scored it has its verdict.
C25_MalformedDates ==
    /\ SocialProcessed /\ ~Parses(fetched.created)
          => ~analysis_results.account_age_flag
    /\ stage = "Scored" /\ ~Parses(fetched.created)
          => analysis_results.creation_date_patterns = <<>>
    /\ stage = "Scored" /\ Parses(fetched.created)
          => /\ Len(analysis_results.creation_date_patterns) = Len(SameDayLookups)
             /\ \A k \in 1..Len(SameDayLookups) :
                    analysis_results.creation_date_patterns[k].username
                        = LookedUp(SameDayLookups[k]).name
    /\ stage = "Error" => NullNamed
    /\ stage = "LookingUp"
          => Len(lookups) < Len(LookupCandidates(AllSuspicious(analysis_results)))
    /\ stage = "Scored" => verdict \in {"Low", "Medium", "High"}

\* a verdict after a lookup brought a malformed date while another candidate
\* is reported
C25_Witness ==
    /\ stage = "Scored"
    /\ \E k \in 1..Len(lookups) : lookups[k].outcome = "bad"
    /\ analysis_results.creation_date_patterns # <<>>
    /\ Len(friends_with_profiles) > Len(analysis_results.creation_date_patterns)

\* the records of fetched_list that check_suspicious_names keeps
Kept(fetched_list) == SelectSeq(fetched_list, LAMBDA user : FirstPattern(user) # 0)

\* record is user with the key matched_pattern added and nothing else
FlaggedCopyOf(record, user) ==
    /\ DOMAIN record = DOMAIN user \cup {"matched_pattern"}
    /\ \A key \in DOMAIN user : record[key] = user[key]

\* subset holds a flagged copy of each kept record of fetched_list, in order
FlaggedCopies(subset, fetched_list) ==
    LET kept == Kept(fetched_list)
    IN /\ Len(subset) = Len(kept)
       /\ \A i \in 1..Len(subset) : FlaggedCopyOf(subset[i], kept[i])

\* C27: from the moment the pattern engine has produced them, the records of
\* the three suspicious subsets have the fields of the fetched records they
\* were made from and matched_pattern, with the fetched values, and nothing
\* else; no later step changes them.
C27_RecordsFrozen ==
    SocialProcessed =>
        /\ FlaggedCopies(analysis_results.suspicious_friends, fetched.friends)
        /\ FlaggedCopies(analysis_results.suspicious_followers, fetched.followers)
        /\ FlaggedCopies(analysis_results.suspicious_following, fetched.following)

\* the suspicious records in the order friends, followers, following
SuspiciousInOrder ==
    Kept(fetched.friends) \o Kept(fetched.followers) \o Kept(fetched.following)

RECURSIVE Answered(_)
\* the positions among the first n lookups that brought a profile with its
\* 'created', in order
Answered(n) ==
    IF n = 0 THEN <<>>
    ELSE IF lookups[n].outcome \in {"null", "raise"} THEN Answered(n - 1)
    ELSE Append(Answered(n - 1), n)

\* C30: a run looks up at most 10 profiles, the k-th lookup being for the
\* k-th suspicious record in the order friends, followers, following; the
\* clustering candidates are the looked-up records but for those whose
\* lookup returned null or failed; such a lookup does not abort the run, and
\* a scored run has looked up the first 10 suspicious records, or all.
C30_Lookups ==
    LET suspicious == SuspiciousInOrder
    IN /\ Len(lookups) <= 10
       /\ \A k \in 1..Len(lookups) : lookups[k].id = suspicious[k].id
       /\ friends_with_profiles = Answered(Len(lookups))
       /\ stage = "Error" => NullNamed /\ lookups = <<>>
       /\ stage = "Scored"
             => Len(lookups) = IF Len(suspicious) < 10 THEN Len(suspicious)
                               ELSE 10

\* a scored run with more than 10 suspicious records, one lookup that
\* returned null and one that failed
C30_Witness ==
    /\ stage = "Scored"
    /\ Len(SuspiciousInOrder) > 10
    /\ Len(lookups) = 10
    /\ \E j, k \in 1..Len(lookups) :
          lookups[j].outcome = "null" /\ lookups[k].outcome = "raise"
    /\ Len(friends_with_profiles) = 8


\* the accounts among the suspicious records that bear one of the names
AccountsNamed(names) ==
    LET all == AllSuspicious(analysis_results)
    IN {all[i].id : i \in {k \in 1..Len(all) :
                              \E n \in 1..Len(names) : all[k].name = names[n]}}

\* C33: every username pattern of a completed analysis is made of two
\* accounts or more, and lists a username no more often than there are
\* accounts bearing it, also when an account is in more than one of the
\* friends, followers and following lists
C33_DistinctAccounts ==
    stage = "Scored" =>
        \A k \in 1..Len(analysis_results.username_patterns) :
            LET usernames == analysis_results.username_patterns[k].usernames
            IN /\ Cardinality(AccountsNamed(usernames)) >= 2
               /\ \A n \in 1..Len(usernames) :
                     Cardinality({m \in 1..Len(usernames) :
                                     usernames[m] = usernames[n]})
                         <= Cardinality(AccountsNamed(<<usernames[n]>>))


\* the flag strings, in the order check_user appends them
FlagNames ==
    << "Suspicious friends detected", "Suspicious followers detected",
       "Suspicious following detected", "Account younger than 4 months",
       "Less than 40 badges", "TSB badges found", "Badges not visible",
       "Default/low-robux avatar", "Account creation patterns detected",
       "Username generation patterns detected" >>

\* the place of a flag in the order; the specific-badge flag and
\* 'Badges not visible' have one place
FlagRank(flag) ==
    LET k == CHOOSE n \in 1..Len(FlagNames) : FlagNames[n] = flag[1]
    IN IF k <= 6 THEN k ELSE k - 1

\* the flag list holds a flag of this name
HasFlag(name) ==
    \E k \in 1..Len(analysis_results.flags) :
        analysis_results.flags[k][1] = name

\* a list of patterns, set when the analysis is scored, holds something
Holds(list) == stage = "Scored" /\ list # <<>>

\* C34: at every point of an analysis the flags are flags of the list
\* above in its order, none twice, the specific-badge flag and 'Badges not
\* visible' never both and 'Badges not visible' never with the badge-count
\* flag; a flag is there exactly when its field of the bundle is true or
\* non-empty, the two pattern flags with the number of patterns found
C34_Flags ==
    stage \in {"SocialGathered", "BadgeAvatarGathered", "AdvancedAnalysis",
               "LookingUp", "Scored", "Error"} =>
        LET ar == analysis_results
            flags == ar.flags
        IN /\ \A k \in 1..Len(flags) :
                 \E n \in 1..Len(FlagNames) : flags[k][1] = FlagNames[n]
           /\ \A k \in 1..Len(flags) - 1 :
                 FlagRank(flags[k]) < FlagRank(flags[k + 1])
           /\ ~(HasFlag("Badges not visible") /\ HasFlag("Less than 40 badges"))
           /\ HasFlag("Suspicious friends detected")
                 <=> ar.suspicious_friends # <<>>
           /\ HasFlag("Suspicious followers detected")
                 <=> ar.suspicious_followers # <<>>
           /\ HasFlag("Suspicious following detected")
                 <=> ar.suspicious_following # <<>>
           /\ HasFlag("Account younger than 4 months") <=> ar.account_age_flag
           /\ HasFlag("Less than 40 badges") <=> ar.badge_count_flag
           /\ HasFlag("TSB badges found") <=> ar.specific_badges_found # <<>>
           /\ HasFlag("Badges not visible") <=> ar.badges_hidden
           /\ HasFlag("Default/low-robux avatar") <=> ar.avatar_flag
           /\ HasFlag("Account creation patterns detected")
                 <=> Holds(ar.creation_date_patterns)
           /\ HasFlag("Username generation patterns detected")
                 <=> Holds(ar.username_patterns)
           /\ \A k \in 1..Len(flags) :
                 /\ flags[k][1] = "Account creation patterns detected"
                       => flags[k][2] = Len(ar.creation_date_patterns)
                 /\ flags[k][1] = "Username generation patterns detected"
                       => flags[k][2] = Len(ar.username_patterns)

C34_Witness ==
    /\ stage = "Scored"
    /\ HasFlag("Suspicious friends detected")
    /\ ~HasFlag("Suspicious followers detected")
    /\ HasFlag("Badges not visible")
    /\ HasFlag("Account creation patterns detected")
    /\ HasFlag("Username generation patterns detected")
    /\ ~HasFlag("Default/low-robux avatar")


\* the seven factors of a bundle, and nothing else of it
SevenFactors(ar) ==
    [suspicious_friends |-> Len(ar.suspicious_friends),
     suspicious_followers |-> Len(ar.suspicious_followers),
     suspicious_following |-> Len(ar.suspicious_following),
     account_age_flag |-> ar.account_age_flag,
     badge_count_flag |-> ar.badge_count_flag,
     specific_badges_found |-> Len(ar.specific_badges_found),
     avatar_flag |-> ar.avatar_flag]

\* C35: the verdict of an analysis is a function of the seven factors of
\* its bundle, the reference level of them: bundles that agree on the
\* seven get the same verdict, whatever their creation-date patterns,
\* username patterns, groups, hidden-badges marker and flags
C35_SevenFactors ==
    stage = "Scored" => verdict = ReferenceLevel(SevenFactors(analysis_results))

\* an analysis that ends like one with hidden badges, no group and no
\* creation-date pattern, but has visible badges, groups and such patterns
C35_Witness ==
    /\ stage = "Scored"
    /\ verdict = "Medium"
    /\ ~analysis_results.badges_hidden
    /\ ~analysis_results.badge_count_flag
    /\ ~analysis_results.avatar_flag
    /\ analysis_results.user_groups # Missing
    /\ analysis_results.creation_date_patterns # <<>>
    /\ analysis_results.username_patterns # <<>>


\* C37: an analysis in which a fetch stage hit its deadline does not end
\* with the verdict High: after the deadline of the social-graph stage the
\* three suspicious counts are 0, after that of the badge/avatar stage the
\* badge-count flag, the specific-badge count and the avatar flag are 0
C37_NeverHigh ==
    stage \in {"BadgeAvatarGathered", "AdvancedAnalysis", "LookingUp", "Scored"} =>
        LET seven == SevenFactors(analysis_results)
        IN /\ "social" \in fetched.timed_out =>
                 /\ seven.suspicious_friends = 0
                 /\ seven.suspicious_followers = 0
                 /\ seven.suspicious_following = 0
           /\ "badges" \in fetched.timed_out
                  /\ stage # "BadgeAvatarGathered" =>
                 /\ ~seven.badge_count_flag
                 /\ seven.specific_badges_found = 0
                 /\ ~seven.avatar_flag
           /\ fetched.timed_out # {} /\ stage = "Scored" => verdict # "High"

\* the social-graph stage of a young account with a watched badge and a
\* bare avatar was cut: the verdict is Medium
C37_Witness ==
    /\ stage = "Scored"
    /\ fetched.timed_out = {"social"}
    /\ analysis_results.account_age_flag
    /\ analysis_results.badge_count_flag
    /\ analysis_results.specific_badges_found # <<>>
    /\ analysis_results.avatar_flag
    /\ verdict = "Medium"

----------------------------------------------------------------------------
(* Properties of check_user coroutines side by side (SpecConcurrent) *)

\* the reads of a value that another run wrote
ForeignReads == {o \in observed : o.writer \notin {o.reader, Constructor}}

\* C28 as claimed: no step of a run reads a value that another run wrote.
C28_NothingShared == ForeignReads = {}

\* C28: the values a run reads that another run wrote are attributes of
\* the fetch client, its last request time and its session; the
\* analysis_results of a run is written by that run alone, holds what that
\* run stored and is read by no other.
C28_OwnBundle ==
    /\ \A o \in ForeignReads : o.cell \in {"last_request_time", "session"}
    /\ \A r \in RunIds :
          /\ results[r].writer \in {Constructor, r}
          /\ results[r].items = IF runs[r].pc = "idle" THEN 0
                                ELSE MaxRequests - runs[r].left

\* two runs have stored into their bundles, each having read the request
\* time the other wrote
C28_Witness ==
    /\ \A r \in {1, 2} : results[r].items > 0
    /\ \E a, b \in ForeignReads :
          /\ a.cell = "last_request_time" /\ a.reader = 1 /\ a.writer = 2
          /\ b.cell = "last_request_time" /\ b.reader = 2 /\ b.writer = 1
----------------------------------------------------------------------------
(* Properties of the warning commands (SpecWarnings)                       *)

\* the timestamps of the warnings of a list
Stamps(list) == {list[k].timestamp : k \in 1..Len(list)}

\* C38: after any sequence of warn and delete operations the ids of the
\* member's warnings are 1..n in the order of the list, and the warnings
\* are in the order in which they were issued
C38_Sequential ==
    stage = "Warnings" =>
        /\ \A k \in 1..Len(warnings) : warnings[k].id = k
        /\ \A j, k \in 1..Len(warnings) :
              j < k => warnings[j].timestamp < warnings[k].timestamp

\* the second of three warnings was deleted, and the third after it
C38_Witness ==
    /\ stage = "Warnings"
    /\ issued = 3
    /\ Len(warnings) = 1
    /\ warnings[1].timestamp = 1
    /\ \E m \in Moderators : dialogs[m].pc = "view" /\ Len(dialogs[m].options) = 3

\* C39: a submitted delete dialog removes the warning the moderator
\* selected in the dropdown and no other, whatever was warned or deleted
\* since the dropdown was opened; if that warning is gone, none is removed
C39_SelectedRemoved ==
    [][\A m \in Moderators :
          dialogs[m].pc = "modal" /\ dialogs'[m].pc = "view" =>
              /\ Stamps(warnings) \ Stamps(warnings') \subseteq {dialogs[m].selected}
              /\ dialogs[m].selected \notin Stamps(warnings')]_vars
====
